---- MODULE Spec2Model ----
(***************************************************************************)
(* Model of the download / de-duplication pipeline of main_3.6.py:         *)
(* discovery (performCivitaiImageScrape, _parse_card_container) feeds      *)
(* image_download_queue, image_downloader workers feed md5_analysis_queue, *)
(* md5_analyzer workers write files and update download_history and        *)
(* url_download_history, main starts the workers, pushes the stop markers, *)
(* joins the workers, exports and flushes the two stores.                  *)
(*                                                                         *)
(* The program is an asyncio program: a coroutine runs until it suspends.  *)
(* The three asyncio.Lock objects are never held across a suspension, so   *)
(* acquiring one never suspends; one action of the model is the code       *)
(* between two real suspension points (queue.get on an empty queue, the    *)
(* network fetch, the file open and write, the page operations, gather).   *)
(*                                                                         *)
(* URLs are sequences of one-character strings, so that the extension and  *)
(* the key of a reference are computed as the code computes them.          *)
(***************************************************************************)
EXTENDS Integers, Sequences, FiniteSets, TLC

\* ---------------------------------------------------------------- bounds
\* scroll passes of one performCivitaiImageScrape (selected_max_scroll_attempts)
MaxScroll == 2
\* cards of one page snapshot
MaxCards == 2
\* download tasks of one run
MaxTasks == 2

\* ------------------------------------------------------------ characters
LowerCase == {"a", "b", "c", "d", "g", "h", "j", "n", "p", "t"}
UpperCase == {"G", "N", "P"}

ToLower(c) ==
    CASE c = "G" -> "g"
      [] c = "N" -> "n"
      [] c = "P" -> "p"
      [] OTHER -> c

IsAlphaChar(c) == c \in LowerCase \cup UpperCase

LowerStr(s) == [i \in 1..Len(s) |-> ToLower(s[i])]

\* str.isalpha(): non-empty and every character alphabetic
IsAlpha(s) == Len(s) > 0 /\ \A i \in 1..Len(s) : IsAlphaChar(s[i])

StartsWith(s, p) == Len(s) >= Len(p) /\ SubSeq(s, 1, Len(p)) = p

\* positions of the character c in s
Positions(s, c) == {i \in 1..Len(s) : s[i] = c}

Min(S) == CHOOSE x \in S : \A y \in S : x <= y
Max(S) == CHOOSE x \in S : \A y \in S : x >= y

\* s.split(c)[0]
BeforeFirst(s, c) ==
    IF Positions(s, c) = {} THEN s ELSE SubSeq(s, 1, Min(Positions(s, c)) - 1)

\* s.split(c)[-1]
AfterLast(s, c) ==
    IF Positions(s, c) = {} THEN s ELSE SubSeq(s, Max(Positions(s, c)) + 1, Len(s))

\* s.split(c, 1): the parts before and after the first c
SplitFirst(s, c) ==
    IF Positions(s, c) = {}
    THEN <<s>>
    ELSE <<SubSeq(s, 1, Min(Positions(s, c)) - 1),
           SubSeq(s, Min(Positions(s, c)) + 1, Len(s))>>

HTTP == <<"h", "t", "t", "p">>
JPG == <<"j", "p", "g">>
NoValue == "None"

\* the longest extension taken from a URL
MaxExtLen == 5

\* the extension taken from the whole URL, query string included
FileExtension_OfWholeUrl(image_url) ==
    LET file_extension == LowerStr(AfterLast(image_url, "."))
    IN  IF Len(file_extension) = 0 \/ Len(file_extension) > MaxExtLen
           \/ ~IsAlpha(file_extension)
        THEN JPG
        ELSE file_extension

\* the extension image_downloader derives from the thumbnail URL
FileExtension(image_url) ==
    LET url_without_query == BeforeFirst(image_url, "?")
        file_extension == LowerStr(AfterLast(url_without_query, "."))
    IN  IF Len(file_extension) = 0 \/ Len(file_extension) > MaxExtLen
           \/ ~IsAlpha(file_extension)
        THEN JPG
        ELSE file_extension

\* f"{image_url}|{original_page_url}"
UrlKey(image_url, original_page_url) == image_url \o <<"|">> \o original_page_url

\* ----------------------------------------------------------------- bytes
ImageBytes == {"B1", "B2"}

\* hashlib.md5(data_bytes).hexdigest()
calculate_md5(data_bytes) ==
    CASE data_bytes = "B1" -> "H1"
      [] data_bytes = "B2" -> "H2"

\* ----------------------------------------------------------------- paths
ImageDir == "downloaded_images"
\* os.path.join(base_folder_path, f"{image_content_md5}.{file_extension}")
CanonicalPath(base_folder_path, image_content_md5, file_extension) ==
    <<base_folder_path, image_content_md5, file_extension>>

\* a file of an earlier layout, outside the canonical naming
OldPath == <<"old_images", "x", JPG>>

\* content of a file that was opened for writing and not yet written
Partial == "partial"

Hyperlink(path) == <<"file:///", path>>

\* ------------------------------------------------------------ references
CIVITAI == <<"h", "t", "t", "p", "s", ":", "/", "/", "c">>
Thumb1 == HTTP \o <<"/", "a", ".", "P", "N", "G">>
Thumb2 == HTTP \o <<"/", "b", ".", "j", "p", "g", "?", "n">>
ThumbBad == <<"d", "a", "t", "a">>
Detail1 == HTTP \o <<"/", "c">>
Detail2 == <<"/", "d">>

\* what the HTML of a card holds: the src of its img and the href of the
\* enclosing a
Cards ==
    { [src |-> Thumb1, href |-> Detail1],
      [src |-> Thumb2, href |-> Detail2],
      [src |-> ThumbBad, href |-> Detail1] }

\* the snapshots of a page: the cards found by one find_all, in DOM order
RECURSIVE SeqsUpTo(_, _)
SeqsUpTo(S, n) ==
    IF n = 0 THEN {<<>>}
    ELSE LET shorter == SeqsUpTo(S, n - 1)
         IN  shorter \cup {Append(q, x) : q \in shorter, x \in S}

Snapshots == SeqsUpTo(Cards, MaxCards)

TargetUrls == {"t1", "t2"}

\* --------------------------------------------------------------- workers
num_downloaders == 2
num_md5_analyzers == 2
Downloaders == 1..num_downloaders
Analyzers == 1..num_md5_analyzers

VARIABLES
    target_urls,                \* read_urls_from_file(KEYWORD_TARGET_FILE)
    scraper,                    \* per target URL: pc, scroll_attempts, seen keys
    image_download_queue,
    md5_analysis_queue,
    download_history,           \* content hash -> path
    url_download_history,       \* key -> [local_path, image_md5]
    disk,                       \* path -> content of the file at that path
    all_search_results_data,
    downloader,                 \* per image_downloader worker: pc, task
    analyzer,                   \* per md5_analyzer worker: pc, task
    main_pc,
    history_files,              \* the two persisted stores
    outcome,                    \* per download task: how far it got (history)
    stale_found,                \* tasks whose cache check found a missing file
    run_log,                    \* counts of puts, takes, fetches, saves (history)
    lock,                       \* the holder of each of the three locks
    aux                         \* inputs and results of the store functions

vars == <<target_urls, scraper, image_download_queue, md5_analysis_queue,
          download_history, url_download_history, disk,
          all_search_results_data, downloader, analyzer, main_pc,
          history_files, outcome, stale_found, run_log, lock, aux>>

\* a function with one more (or one changed) mapping
Put(f, k, v) == [x \in DOMAIN f \cup {k} |-> IF x = k THEN v ELSE f[x]]
Empty == [x \in {} |-> NoValue]

\* nothing counted yet
NoLog == [puts |-> Empty, takes |-> Empty, fetches |-> Empty,
          saves |-> [md5 |-> 0, url |-> 0]]
\* one more of the count of k
Counted(f, k) == Put(f, k, IF k \in DOMAIN f THEN f[k] + 1 ELSE 1)

\* download_history_lock, url_download_history_lock and
\* all_search_results_data_lock, free
NoHolder == <<>>
Unlocked == [download_history |-> NoHolder, url_download_history |-> NoHolder,
             all_search_results_data |-> NoHolder]

NoAux == [pc |-> "unused"]

\* None on a queue, and a worker that holds no task
StopMarker == [stop |-> TRUE]
NoTask == [none |-> TRUE]
\* the empty string of a path field
NoPath == <<>>

Exists(path) == path \in DOMAIN disk

\* the identity of a download task: its template's search URL and its key
TaskId(task) ==
    <<task.template.search_url, task.image_url, task.original_page_url>>

\* ------------------------------------------------------- persisted stores
\* the rows save_url_history appends, one per key
save_url_history_rows(history) ==
    { LET parts == SplitFirst(key, "|")
      IN  [thumb_url |-> parts[1], orig_page_url |-> parts[2],
           local_path |-> history[key].local_path,
           image_md5 |-> history[key].image_md5] : key \in DOMAIN history }

\* what load_workbook reads from a cell that was written with a string or
\* with None: a cell written with "" or None is read as None
CellRead(written) == IF written \in {"", NoValue} THEN NoValue ELSE written

\* url_download_history after load_url_history read the rows into an empty
\* store: a row with an empty thumbnail URL, detail-page URL or path is
\* passed over (a cell read as None and one holding "" both fail the test)
load_url_history(rows) ==
    LET accepted == {row \in rows : /\ Len(row.thumb_url) > 0
                                    /\ Len(row.orig_page_url) > 0
                                    /\ Len(row.local_path) > 0}
        keys == {UrlKey(row.thumb_url, row.orig_page_url) : row \in accepted}
    IN  [key \in keys |->
            LET row == CHOOSE r \in accepted :
                           UrlKey(r.thumb_url, r.orig_page_url) = key
            IN  [local_path |-> row.local_path,
                 image_md5 |-> CellRead(row.image_md5)]]

Key1 == UrlKey(Thumb1, Detail1)
Png == <<"p", "n", "g">>
Canon1 == CanonicalPath(ImageDir, "H1", Png)

\* the stores and the files an earlier run may have left behind: nothing;
\* the image of the first reference, recorded under its canonical path or
\* under a path of an older layout, its file kept or deleted since; the
\* same image known to the content-hash store only
Record1(path) == Put(Empty, Key1, [local_path |-> path, image_md5 |-> "H1"])
EarlierRuns ==
    { [md5 |-> Empty, url |-> Empty, disk |-> Empty],
      [md5 |-> Put(Empty, "H1", Canon1), url |-> Record1(Canon1),
       disk |-> Put(Empty, Canon1, "B1")],
      [md5 |-> Put(Empty, "H1", Canon1), url |-> Record1(Canon1),
       disk |-> Empty],
      [md5 |-> Put(Empty, "H1", OldPath), url |-> Record1(OldPath),
       disk |-> Put(Empty, OldPath, "B1")],
      [md5 |-> Put(Empty, "H1", Canon1), url |-> Empty,
       disk |-> Put(Empty, Canon1, "B1")],
      [md5 |-> Put(Empty, "H1", OldPath), url |-> Empty,
       disk |-> Put(Empty, OldPath, "B1")] }

\* the state when main starts
Pipeline ==
    /\ target_urls \in {{}, {"t1"}, TargetUrls}
    /\ scraper = [t \in TargetUrls |->
                    [pc |-> "idle", scroll_attempts |-> 0, seen |-> {}]]
    /\ image_download_queue = <<>>
    /\ md5_analysis_queue = <<>>
    /\ \E run \in EarlierRuns :
          /\ download_history = run.md5
          /\ url_download_history = run.url
          /\ disk = run.disk
    /\ all_search_results_data = <<>>
    /\ downloader = [w \in Downloaders |-> [pc |-> "get", task |-> NoTask]]
    /\ analyzer = [a \in Analyzers |-> [pc |-> "get", task |-> NoTask]]
    /\ main_pc = "start"
    /\ history_files = [md5 |-> download_history,
                        url |-> save_url_history_rows(url_download_history)]
    /\ outcome = Empty
    /\ stale_found = {}
    /\ run_log = NoLog
    /\ lock = Unlocked

Init == Pipeline /\ aux = NoAux

\* -------------------------------------------------------------- discovery
\* mutant: the seen-set check is left out, a card seen again is queued again
_parse_card_container_NoSeenCheck(card, queue, target_url, seen) ==
    LET thumbnail_url == card.src
        original_page_url ==
            IF Len(card.href) > 0 /\ ~StartsWith(card.href, HTTP)
            THEN CIVITAI \o card.href
            ELSE card.href
        unique_key_for_scrape_tracking == UrlKey(thumbnail_url, original_page_url)
        result_data_template ==
            [search_url |-> target_url, thumbnail_url |-> thumbnail_url,
             local_path |-> NoPath, local_hyperlink |-> NoPath,
             original_page_url |-> original_page_url, image_md5 |-> ""]
    IN  IF Len(thumbnail_url) = 0 \/ ~StartsWith(thumbnail_url, HTTP)
        THEN [added |-> FALSE, queue |-> queue, seen |-> seen]
        ELSE [added |-> TRUE,
              queue |-> Append(queue,
                          [image_url |-> thumbnail_url,
                           original_page_url |-> original_page_url,
                           base_folder_path |-> ImageDir,
                           template |-> result_data_template]),
              seen |-> seen \cup {unique_key_for_scrape_tracking}]

\* _parse_card_container marking the card as seen before testing its
\* thumbnail
_parse_card_container_SeenFirst(card, queue, target_url, seen) ==
    LET thumbnail_url == card.src
        original_page_url ==
            IF Len(card.href) > 0 /\ ~StartsWith(card.href, HTTP)
            THEN CIVITAI \o card.href
            ELSE card.href
        unique_key_for_scrape_tracking == UrlKey(thumbnail_url, original_page_url)
        result_data_template ==
            [search_url |-> target_url, thumbnail_url |-> thumbnail_url,
             local_path |-> NoPath, local_hyperlink |-> NoPath,
             original_page_url |-> original_page_url, image_md5 |-> ""]
    IN  IF unique_key_for_scrape_tracking \in seen
        THEN [added |-> FALSE, queue |-> queue, seen |-> seen]
        ELSE IF Len(thumbnail_url) = 0 \/ ~StartsWith(thumbnail_url, HTTP)
        THEN [added |-> FALSE, queue |-> queue,
              seen |-> seen \cup {unique_key_for_scrape_tracking}]
        ELSE [added |-> TRUE,
              queue |-> Append(queue,
                          [image_url |-> thumbnail_url,
                           original_page_url |-> original_page_url,
                           base_folder_path |-> ImageDir,
                           template |-> result_data_template]),
              seen |-> seen \cup {unique_key_for_scrape_tracking}]

\* _parse_card_container: the queue and the seen-set after one card
\* (added is its return value)
_parse_card_container(card, queue, target_url, seen) ==
    LET thumbnail_url == card.src
        original_page_url ==
            IF Len(card.href) > 0 /\ ~StartsWith(card.href, HTTP)
            THEN CIVITAI \o card.href
            ELSE card.href
        unique_key_for_scrape_tracking == UrlKey(thumbnail_url, original_page_url)
        result_data_template ==
            [search_url |-> target_url, thumbnail_url |-> thumbnail_url,
             local_path |-> NoPath, local_hyperlink |-> NoPath,
             original_page_url |-> original_page_url, image_md5 |-> ""]
    IN  IF Len(thumbnail_url) = 0 \/ ~StartsWith(thumbnail_url, HTTP)
        THEN [added |-> FALSE, queue |-> queue, seen |-> seen]
        ELSE IF unique_key_for_scrape_tracking \in seen
        THEN [added |-> FALSE, queue |-> queue, seen |-> seen]
        ELSE [added |-> TRUE,
              queue |-> Append(queue,
                          [image_url |-> thumbnail_url,
                           original_page_url |-> original_page_url,
                           base_folder_path |-> ImageDir,
                           template |-> result_data_template]),
              seen |-> seen \cup {unique_key_for_scrape_tracking}]

\* the for loop over image_card_containers of one scroll pass
RECURSIVE ParseCards(_, _, _, _)
ParseCards(cards, queue, target_url, seen) ==
    IF cards = <<>>
    THEN [queue |-> queue, seen |-> seen]
    ELSE LET r == _parse_card_container(Head(cards), queue, target_url, seen)
         IN  ParseCards(Tail(cards), r.queue, target_url, r.seen)

\* the tasks a pass has put on the queue become known to the history
Queued(old_queue, new_queue) ==
    [id \in DOMAIN outcome \cup
            {TaskId(new_queue[i]) : i \in (Len(old_queue) + 1)..Len(new_queue)}
        |-> IF id \in DOMAIN outcome THEN outcome[id] ELSE "queued"]

\* the puts of a pass, counted per task
RECURSIVE PutsCounted(_, _, _)
PutsCounted(puts, old_queue, new_queue) ==
    IF Len(new_queue) <= Len(old_queue)
    THEN puts
    ELSE Counted(PutsCounted(puts, old_queue,
                             SubSeq(new_queue, 1, Len(new_queue) - 1)),
                 TaskId(new_queue[Len(new_queue)]))

\* the cards of a pass that the seen-set of the call already held when
\* _parse_card_container reached them
SeenAgain(cards, target_url) ==
    {<<target_url, key>> : key \in
        UNION {LET before == ParseCards(SubSeq(cards, 1, i - 1), <<>>, target_url,
                                        scraper[target_url].seen).seen
                   own == _parse_card_container(cards[i], <<>>, target_url, {}).seen
               IN  own \cap before : i \in DOMAIN cards}}

\* _navigate_and_setup_page returned a page
S_Navigate(t) ==
    /\ scraper[t].pc = "nav"
    /\ scraper' = [scraper EXCEPT ![t].pc = "scroll"]
    /\ UNCHANGED <<target_urls, image_download_queue, md5_analysis_queue,
                   download_history, url_download_history, disk,
                   all_search_results_data, downloader, analyzer, main_pc,
                   history_files, outcome,
                   stale_found, run_log, lock, aux>>

\* _navigate_and_setup_page returned no page: performCivitaiImageScrape returns
S_NavigateFailed(t) ==
    /\ scraper[t].pc = "nav"
    /\ scraper' = [scraper EXCEPT ![t].pc = "done"]
    /\ UNCHANGED <<target_urls, image_download_queue, md5_analysis_queue,
                   download_history, url_download_history, disk,
                   all_search_results_data, downloader, analyzer, main_pc,
                   history_files, outcome,
                   stale_found, run_log, lock, aux>>

\* one pass of the scroll loop over the snapshot page.content() returned
Pass(t, snapshot) ==
    /\ scraper[t].pc = "scroll"
    /\ scraper[t].scroll_attempts < MaxScroll
    /\ LET r == ParseCards(snapshot, image_download_queue, t, scraper[t].seen)
       IN  /\ image_download_queue' = r.queue
           /\ scraper' = [scraper EXCEPT
                            ![t].scroll_attempts = @ + 1, ![t].seen = r.seen]
           /\ outcome' = Queued(image_download_queue, r.queue)
           /\ Cardinality(DOMAIN outcome') <= MaxTasks
           /\ run_log' = [run_log EXCEPT
                            !.puts = PutsCounted(@, image_download_queue, r.queue)]
    /\ UNCHANGED <<target_urls, md5_analysis_queue, download_history,
                   url_download_history, disk, all_search_results_data,
                   downloader, analyzer, main_pc, history_files,
                   stale_found, lock>>

S_Pass(t, snapshot) == Pass(t, snapshot) /\ UNCHANGED aux

\* the scroll loop is over: page.close()
S_Close(t) ==
    /\ scraper[t].pc = "scroll"
    /\ scraper[t].scroll_attempts >= MaxScroll
    /\ scraper' = [scraper EXCEPT ![t].pc = "done"]
    /\ UNCHANGED <<target_urls, image_download_queue, md5_analysis_queue,
                   download_history, url_download_history, disk,
                   all_search_results_data, downloader, analyzer, main_pc,
                   history_files, outcome,
                   stale_found, run_log, lock, aux>>

\* ------------------------------------------------------- image_downloader
\* mutant: the cache check is left out, every task is fetched
download_needed_Always(task) == TRUE

\* the cache check of image_downloader: the key is in url_download_history
\* and the recorded file exists
download_needed(task) ==
    LET unique_url_key == UrlKey(task.image_url, task.original_page_url)
    IN  ~(/\ unique_url_key \in DOMAIN url_download_history
          /\ Exists(url_download_history[unique_url_key].local_path))

\* the cache check finds a record whose file is missing
StaleRecord(task) ==
    LET unique_url_key == UrlKey(task.image_url, task.original_page_url)
    IN  /\ unique_url_key \in DOMAIN url_download_history
        /\ ~Exists(url_download_history[unique_url_key].local_path)

\* url_download_history after the cache check of a task: a record whose
\* file is missing is logged and kept
HistoryAfterCacheCheck(task) == url_download_history

\* the row image_downloader appends on a cache hit
CacheHitRow(task) ==
    LET existing_info ==
            url_download_history[UrlKey(task.image_url, task.original_page_url)]
    IN  [task.template EXCEPT
            !.local_path = existing_info.local_path,
            !.local_hyperlink = Hyperlink(existing_info.local_path),
            !.image_md5 = existing_info.image_md5]

\* the item forwarded with the default extension, whatever the URL
AnalysisItem_DefaultExtension(task, image_bytes) ==
    [image_bytes |-> image_bytes, image_url |-> task.image_url,
     original_page_url |-> task.original_page_url,
     base_folder_path |-> task.base_folder_path,
     file_extension |-> JPG,
     template |-> task.template]

\* the item image_downloader puts on md5_analysis_queue
AnalysisItem(task, image_bytes) ==
    [image_bytes |-> image_bytes, image_url |-> task.image_url,
     original_page_url |-> task.original_page_url,
     base_folder_path |-> task.base_folder_path,
     file_extension |-> FileExtension(task.image_url),
     template |-> task.template]

\* queue.get() returned: a stop marker ends the worker; a task is checked
\* against url_download_history and is either answered from it or fetched
D_Get(w) ==
    /\ downloader[w].pc = "get"
    /\ image_download_queue # <<>>
    /\ image_download_queue' = Tail(image_download_queue)
    /\ LET task == Head(image_download_queue)
       IN  IF task = StopMarker
           THEN /\ downloader' = [downloader EXCEPT ![w].pc = "done"]
                /\ UNCHANGED <<url_download_history, all_search_results_data,
                               outcome>>
           ELSE /\ url_download_history' = HistoryAfterCacheCheck(task)
                /\ IF download_needed(task)
                   THEN IF StartsWith(task.image_url, HTTP)
                        THEN /\ downloader' = [downloader EXCEPT
                                    ![w] = [pc |-> "fetch", task |-> task]]
                             /\ outcome' = Put(outcome, TaskId(task), "fetching")
                             /\ UNCHANGED all_search_results_data
                        ELSE /\ outcome' = Put(outcome, TaskId(task), "not_http")
                             /\ UNCHANGED <<downloader, all_search_results_data>>
                   ELSE /\ all_search_results_data' =
                              Append(all_search_results_data, CacheHitRow(task))
                        /\ outcome' = Put(outcome, TaskId(task), "cache_hit")
                        /\ UNCHANGED downloader
    /\ stale_found' =
          IF Head(image_download_queue) # StopMarker
             /\ StaleRecord(Head(image_download_queue))
          THEN stale_found \cup {TaskId(Head(image_download_queue))}
          ELSE stale_found
    /\ run_log' =
          IF Head(image_download_queue) = StopMarker
          THEN run_log
          ELSE [run_log EXCEPT
                  !.takes = Counted(@, TaskId(Head(image_download_queue))),
                  !.fetches =
                      IF download_needed(Head(image_download_queue))
                         /\ StartsWith(Head(image_download_queue).image_url, HTTP)
                      THEN Counted(@, TaskId(Head(image_download_queue)))
                      ELSE @]
    /\ UNCHANGED <<target_urls, scraper, md5_analysis_queue, download_history,
                   disk, analyzer, main_pc, history_files, lock, aux>>

\* response.read() returned the bytes: they go to md5_analysis_queue
D_Fetched(w, image_bytes) ==
    /\ downloader[w].pc = "fetch"
    /\ md5_analysis_queue' =
          Append(md5_analysis_queue, AnalysisItem(downloader[w].task, image_bytes))
    /\ downloader' = [downloader EXCEPT ![w] = [pc |-> "get", task |-> NoTask]]
    /\ outcome' = Put(outcome, TaskId(downloader[w].task), "forwarded")
    /\ UNCHANGED <<target_urls, scraper, image_download_queue, download_history,
                   url_download_history, disk, all_search_results_data,
                   analyzer, main_pc, history_files,
                   stale_found, run_log, lock, aux>>

\* mutant: a failed fetch publishes the template with its empty path fields
D_FetchFailed_PlaceholderRow(w) ==
    /\ downloader[w].pc = "fetch"
    /\ downloader' = [downloader EXCEPT ![w] = [pc |-> "get", task |-> NoTask]]
    /\ all_search_results_data' =
          Append(all_search_results_data, downloader[w].task.template)
    /\ outcome' = Put(outcome, TaskId(downloader[w].task), "fetch_failed")
    /\ UNCHANGED <<target_urls, scraper, image_download_queue,
                   md5_analysis_queue, download_history, url_download_history,
                   disk, analyzer, main_pc, history_files, stale_found, run_log, lock, aux>>

\* mutant: nothing catches the exception of a failed fetch, the worker ends
D_FetchFailed_Exits(w) ==
    /\ downloader[w].pc = "fetch"
    /\ downloader' = [downloader EXCEPT
                        ![w] = [pc |-> "crashed", task |-> NoTask]]
    /\ outcome' = Put(outcome, TaskId(downloader[w].task), "fetch_failed")
    /\ UNCHANGED <<target_urls, scraper, image_download_queue,
                   md5_analysis_queue, download_history, url_download_history,
                   disk, all_search_results_data, analyzer, main_pc,
                   history_files, stale_found, run_log, lock, aux>>

\* mutant: a task whose fetch failed is put back on the queue
D_FetchFailed_Retries(w) ==
    /\ downloader[w].pc = "fetch"
    /\ downloader' = [downloader EXCEPT ![w] = [pc |-> "get", task |-> NoTask]]
    /\ image_download_queue' = Append(image_download_queue, downloader[w].task)
    /\ outcome' = Put(outcome, TaskId(downloader[w].task), "queued")
    /\ UNCHANGED <<target_urls, scraper,
                   md5_analysis_queue, download_history, url_download_history,
                   disk, all_search_results_data, analyzer, main_pc,
                   history_files,
                   stale_found, run_log, lock, aux>>

\* the fetch raised (timeout, connection error, error status): logged
D_FetchFailed(w) ==
    /\ downloader[w].pc = "fetch"
    /\ downloader' = [downloader EXCEPT ![w] = [pc |-> "get", task |-> NoTask]]
    /\ outcome' = Put(outcome, TaskId(downloader[w].task), "fetch_failed")
    /\ UNCHANGED <<target_urls, scraper, image_download_queue,
                   md5_analysis_queue, download_history, url_download_history,
                   disk, all_search_results_data, analyzer, main_pc,
                   history_files,
                   stale_found, run_log, lock, aux>>

\* ----------------------------------------------------------- md5_analyzer
\* abs_local_filename of an item of md5_analysis_queue
abs_local_filename(item) ==
    CanonicalPath(item.base_folder_path, calculate_md5(item.image_bytes),
                  item.file_extension)

\* mutant: the bytes are saved whether or not the file exists
WriteNeeded_Always(item) == TRUE

\* md5_analyzer saves the bytes when no file exists at abs_local_filename
\* (the look-up in download_history before it only logs)
WriteNeeded(item) == ~Exists(abs_local_filename(item))

\* the row md5_analyzer appends
AnalyzerRow(item) ==
    [item.template EXCEPT
        !.local_path = abs_local_filename(item),
        !.local_hyperlink = Hyperlink(abs_local_filename(item)),
        !.image_md5 = calculate_md5(item.image_bytes)]

\* mutant: a hash recorded with another path is evicted, not re-recorded
UpdateAndPublish_EvictsOutdated(item) ==
    /\ download_history' =
          IF /\ calculate_md5(item.image_bytes) \in DOMAIN download_history
             /\ download_history[calculate_md5(item.image_bytes)]
                   # abs_local_filename(item)
          THEN [h \in DOMAIN download_history
                      \ {calculate_md5(item.image_bytes)} |-> download_history[h]]
          ELSE Put(download_history, calculate_md5(item.image_bytes),
                   abs_local_filename(item))
    /\ url_download_history' =
          Put(url_download_history,
              UrlKey(item.image_url, item.original_page_url),
              [local_path |-> abs_local_filename(item),
               image_md5 |-> calculate_md5(item.image_bytes)])
    /\ all_search_results_data' =
          Append(all_search_results_data, AnalyzerRow(item))

\* the update of both histories and the publication of the row
UpdateAndPublish(item) ==
    /\ download_history' =
          Put(download_history, calculate_md5(item.image_bytes),
              abs_local_filename(item))
    /\ url_download_history' =
          Put(url_download_history,
              UrlKey(item.image_url, item.original_page_url),
              [local_path |-> abs_local_filename(item),
               image_md5 |-> calculate_md5(item.image_bytes)])
    /\ all_search_results_data' =
          Append(all_search_results_data, AnalyzerRow(item))

\* queue.get() returned: a stop marker ends the worker; for an item whose
\* file exists the write is skipped and the item is published; otherwise
\* the directory is made and the file is opened
A_Get(a) ==
    /\ analyzer[a].pc = "get"
    /\ md5_analysis_queue # <<>>
    /\ md5_analysis_queue' = Tail(md5_analysis_queue)
    /\ LET item == Head(md5_analysis_queue)
       IN  IF item = StopMarker
           THEN /\ analyzer' = [analyzer EXCEPT ![a].pc = "done"]
                /\ UNCHANGED <<download_history, url_download_history,
                               all_search_results_data, outcome>>
           ELSE IF WriteNeeded(item)
           THEN /\ analyzer' = [analyzer EXCEPT
                                  ![a] = [pc |-> "open", task |-> item]]
                /\ outcome' = Put(outcome, TaskId(item), "opening")
                /\ UNCHANGED <<download_history, url_download_history,
                               all_search_results_data>>
           ELSE /\ UpdateAndPublish(item)
                /\ outcome' = Put(outcome, TaskId(item), "skipped")
                /\ UNCHANGED analyzer
    /\ UNCHANGED <<target_urls, scraper, image_download_queue, disk,
                   downloader, main_pc, history_files,
                   stale_found, run_log, lock, aux>>

\* os.makedirs raised for an item that needs a write: nothing catches it,
\* the worker's task ends with the exception
A_MakedirsFailed(a) ==
    /\ analyzer[a].pc = "get"
    /\ md5_analysis_queue # <<>>
    /\ Head(md5_analysis_queue) # StopMarker
    /\ WriteNeeded(Head(md5_analysis_queue))
    /\ md5_analysis_queue' = Tail(md5_analysis_queue)
    /\ analyzer' = [analyzer EXCEPT ![a].pc = "crashed"]
    /\ outcome' = Put(outcome, TaskId(Head(md5_analysis_queue)), "makedirs_failed")
    /\ UNCHANGED <<target_urls, scraper, image_download_queue,
                   download_history, url_download_history, disk,
                   all_search_results_data, downloader, main_pc, history_files,
                   stale_found, run_log, lock, aux>>

\* aiofiles.open(abs_local_filename, 'wb') returned: the file exists, empty
A_Opened(a) ==
    /\ analyzer[a].pc = "open"
    /\ disk' = Put(disk, abs_local_filename(analyzer[a].task), Partial)
    /\ analyzer' = [analyzer EXCEPT ![a].pc = "write"]
    /\ outcome' = Put(outcome, TaskId(analyzer[a].task), "writing")
    /\ UNCHANGED <<target_urls, scraper, image_download_queue,
                   md5_analysis_queue, download_history, url_download_history,
                   all_search_results_data, downloader, main_pc, history_files,
                   stale_found, run_log, lock, aux>>

\* aiofiles.open raised: logged, the item is dropped
A_OpenFailed(a) ==
    /\ analyzer[a].pc = "open"
    /\ analyzer' = [analyzer EXCEPT ![a] = [pc |-> "get", task |-> NoTask]]
    /\ outcome' = Put(outcome, TaskId(analyzer[a].task), "write_failed")
    /\ UNCHANGED <<target_urls, scraper, image_download_queue,
                   md5_analysis_queue, download_history, url_download_history,
                   disk, all_search_results_data, downloader, main_pc,
                   history_files,
                   stale_found, run_log, lock, aux>>

\* mutant: the analyzer saves both histories after every write
A_Written_SavesHistories(a) ==
    /\ analyzer[a].pc = "write"
    /\ disk' = Put(disk, abs_local_filename(analyzer[a].task),
                   analyzer[a].task.image_bytes)
    /\ UpdateAndPublish(analyzer[a].task)
    /\ history_files' = [md5 |-> download_history',
                         url |-> save_url_history_rows(url_download_history')]
    /\ analyzer' = [analyzer EXCEPT ![a] = [pc |-> "get", task |-> NoTask]]
    /\ outcome' = Put(outcome, TaskId(analyzer[a].task), "written")
    /\ UNCHANGED <<target_urls, scraper, image_download_queue,
                   md5_analysis_queue, downloader, main_pc,
                   stale_found, run_log, lock, aux>>

\* f.write(image_bytes) returned and the file is closed: the histories are
\* updated and the row is published
A_Written(a) ==
    /\ analyzer[a].pc = "write"
    /\ disk' = Put(disk, abs_local_filename(analyzer[a].task),
                   analyzer[a].task.image_bytes)
    /\ UpdateAndPublish(analyzer[a].task)
    /\ analyzer' = [analyzer EXCEPT ![a] = [pc |-> "get", task |-> NoTask]]
    /\ outcome' = Put(outcome, TaskId(analyzer[a].task), "written")
    /\ UNCHANGED <<target_urls, scraper, image_download_queue,
                   md5_analysis_queue, downloader, main_pc, history_files,
                   stale_found, run_log, lock, aux>>

\* mutant: a failed write falls through to the update of the histories
A_WriteFailed_Publishes(a) ==
    /\ analyzer[a].pc = "write"
    /\ UpdateAndPublish(analyzer[a].task)
    /\ analyzer' = [analyzer EXCEPT ![a] = [pc |-> "get", task |-> NoTask]]
    /\ outcome' = Put(outcome, TaskId(analyzer[a].task), "write_failed")
    /\ UNCHANGED <<target_urls, scraper, image_download_queue,
                   md5_analysis_queue, disk, downloader, main_pc,
                   history_files, stale_found, run_log, lock, aux>>

\* f.write raised: logged, the item is dropped, the file stays as it is
A_WriteFailed(a) ==
    /\ analyzer[a].pc = "write"
    /\ analyzer' = [analyzer EXCEPT ![a] = [pc |-> "get", task |-> NoTask]]
    /\ outcome' = Put(outcome, TaskId(analyzer[a].task), "write_failed")
    /\ UNCHANGED <<target_urls, scraper, image_download_queue,
                   md5_analysis_queue, download_history, url_download_history,
                   disk, all_search_results_data, downloader, main_pc,
                   history_files,
                   stale_found, run_log, lock, aux>>

\* ------------------------------------------------------------------- main
\* n stop markers
RECURSIVE Markers(_)
Markers(n) == IF n = 0 THEN <<>> ELSE Append(Markers(n - 1), StopMarker)

\* the workers asyncio.run cancels when main ends with an exception
Cancelled(workers) ==
    [w \in DOMAIN workers |->
        IF workers[w].pc \in {"done", "crashed"}
        THEN workers[w]
        ELSE [pc |-> "cancelled", task |-> NoTask]]

\* no target URL: the markers are put at once and main joins the workers
M_StartNoUrls ==
    /\ main_pc = "start"
    /\ target_urls = {}
    /\ image_download_queue' = image_download_queue \o Markers(num_downloaders)
    /\ md5_analysis_queue' = md5_analysis_queue \o Markers(num_md5_analyzers)
    /\ main_pc' = "join_downloaders"
    /\ UNCHANGED <<target_urls, scraper, download_history, url_download_history,
                   disk, all_search_results_data, downloader, analyzer,
                   history_files, outcome,
                   stale_found, run_log, lock, aux>>

\* one performCivitaiImageScrape per target URL, gathered
M_StartScraping ==
    /\ main_pc = "start"
    /\ target_urls # {}
    /\ scraper' = [t \in TargetUrls |->
                     IF t \in target_urls
                     THEN [scraper[t] EXCEPT !.pc = "nav"]
                     ELSE scraper[t]]
    /\ main_pc' = "scrape"
    /\ UNCHANGED <<target_urls, image_download_queue, md5_analysis_queue,
                   download_history, url_download_history, disk,
                   all_search_results_data, downloader, analyzer,
                   history_files, outcome,
                   stale_found, run_log, lock, aux>>

\* mutant: the stop markers are put while scrape coroutines still run
M_Signal_Early ==
    /\ main_pc = "scrape"
    /\ image_download_queue' = image_download_queue \o Markers(num_downloaders)
    /\ md5_analysis_queue' = md5_analysis_queue \o Markers(num_md5_analyzers)
    /\ main_pc' = "join_downloaders"
    /\ UNCHANGED <<target_urls, scraper, download_history, url_download_history,
                   disk, all_search_results_data, downloader, analyzer,
                   history_files, outcome,
                   stale_found, run_log, lock, aux>>

\* gather(*scrape_tasks) returned: one stop marker per worker on each
\* queue, those of md5_analysis_queue too, before any join
M_Signal ==
    /\ main_pc = "scrape"
    /\ \A t \in target_urls : scraper[t].pc = "done"
    /\ image_download_queue' = image_download_queue \o Markers(num_downloaders)
    /\ md5_analysis_queue' = md5_analysis_queue \o Markers(num_md5_analyzers)
    /\ main_pc' = "join_downloaders"
    /\ UNCHANGED <<target_urls, scraper, download_history, url_download_history,
                   disk, all_search_results_data, downloader, analyzer,
                   history_files, outcome,
                   stale_found, run_log, lock, aux>>

\* gather(*downloader_tasks) returned
M_JoinDownloaders ==
    /\ main_pc = "join_downloaders"
    /\ \A w \in Downloaders : downloader[w].pc = "done"
    /\ main_pc' = "join_analyzers"
    /\ UNCHANGED <<target_urls, scraper, image_download_queue,
                   md5_analysis_queue,
                   download_history, url_download_history, disk,
                   all_search_results_data, downloader, analyzer,
                   history_files, outcome,
                   stale_found, run_log, lock, aux>>

\* gather(*analyzer_tasks) returned: main goes on to the export, or returns
\* when there was no target URL
M_JoinAnalyzers ==
    /\ main_pc = "join_analyzers"
    /\ \A a \in Analyzers : analyzer[a].pc = "done"
    /\ main_pc' = IF target_urls = {} THEN "returned" ELSE "export"
    /\ UNCHANGED <<target_urls, scraper, image_download_queue,
                   md5_analysis_queue, download_history, url_download_history,
                   disk, all_search_results_data, downloader, analyzer,
                   history_files, outcome,
                   stale_found, run_log, lock, aux>>

\* gather(*analyzer_tasks) raised the exception of a worker: main ends with
\* it and the tasks still pending are cancelled
M_JoinAnalyzersRaised ==
    /\ main_pc = "join_analyzers"
    /\ \E a \in Analyzers : analyzer[a].pc = "crashed"
    /\ main_pc' = "failed"
    /\ analyzer' = Cancelled(analyzer)
    /\ UNCHANGED <<target_urls, scraper, image_download_queue,
                   md5_analysis_queue, download_history, url_download_history,
                   disk, all_search_results_data, downloader, history_files,
                   outcome,
                   stale_found, run_log, lock, aux>>

\* the export was saved: save_download_history, then save_url_history
M_ExportAndSave ==
    /\ main_pc = "export"
    /\ history_files' = [md5 |-> download_history,
                         url |-> save_url_history_rows(url_download_history)]
    /\ main_pc' = "finished"
    /\ run_log' = [run_log EXCEPT !.saves = [md5 |-> @.md5 + 1,
                                             url |-> @.url + 1]]
    /\ UNCHANGED <<target_urls, scraper, image_download_queue,
                   md5_analysis_queue, download_history, url_download_history,
                   disk, all_search_results_data, downloader, analyzer, outcome,
                   stale_found, lock, aux>>

\* wb.save of the export raised: main ends with the exception
M_ExportFailed ==
    /\ main_pc = "export"
    /\ main_pc' = "failed"
    /\ UNCHANGED <<target_urls, scraper, image_download_queue,
                   md5_analysis_queue, download_history, url_download_history,
                   disk, all_search_results_data, downloader, analyzer,
                   history_files, outcome,
                   stale_found, run_log, lock, aux>>

Next ==
    \/ \E t \in TargetUrls : S_Navigate(t)
    \/ \E t \in TargetUrls : S_NavigateFailed(t)
    \/ \E t \in TargetUrls, snapshot \in Snapshots : S_Pass(t, snapshot)
    \/ \E t \in TargetUrls : S_Close(t)
    \/ \E w \in Downloaders : D_Get(w)
    \/ \E w \in Downloaders, b \in ImageBytes : D_Fetched(w, b)
    \/ \E w \in Downloaders : D_FetchFailed(w)
    \/ \E a \in Analyzers : A_Get(a)
    \/ \E a \in Analyzers : A_MakedirsFailed(a)
    \/ \E a \in Analyzers : A_Opened(a)
    \/ \E a \in Analyzers : A_OpenFailed(a)
    \/ \E a \in Analyzers : A_Written(a)
    \/ \E a \in Analyzers : A_WriteFailed(a)
    \/ M_StartNoUrls
    \/ M_StartScraping
    \/ M_Signal
    \/ M_JoinDownloaders
    \/ M_JoinAnalyzers
    \/ M_JoinAnalyzersRaised
    \/ M_ExportAndSave
    \/ M_ExportFailed

Spec == Init /\ [][Next]_vars

\* ------------------------------------------------- discovery, on its own
\* the scrape coroutines alone, with a record of the cards that each call
\* met again
NoneSeenAgain == [pc |-> "discovery", seen_again |-> {}]

InitDiscovery == Pipeline /\ aux = NoneSeenAgain

S_PassSeen(t, snapshot) ==
    /\ Pass(t, snapshot)
    /\ aux' = [aux EXCEPT !.seen_again = @ \cup SeenAgain(snapshot, t)]

NextDiscovery ==
    \/ M_StartScraping
    \/ \E t \in TargetUrls : S_Navigate(t)
    \/ \E t \in TargetUrls : S_NavigateFailed(t)
    \/ \E t \in TargetUrls, snapshot \in Snapshots : S_PassSeen(t, snapshot)
    \/ \E t \in TargetUrls : S_Close(t)

SpecDiscovery == InitDiscovery /\ [][NextDiscovery]_vars

\* ------------------------------------ the workers, one step per statement
\* the critical sections of the workers at the grain of the event loop: a
\* coroutine runs until it is suspended, in queue.get(), in the fetch, in
\* aiofiles.open, in f.write, or in the acquire of a lock that is held;
\* the acquire of a free asyncio.Lock returns without suspending

\* the lock each async with acquires, by the place of the worker
LockOf == [url_lock |-> "url_download_history",
           md5_lock |-> "download_history",
           dh_lock |-> "download_history",
           udh_lock |-> "url_download_history",
           row_lock |-> "all_search_results_data"]

\* the statement after each acquire
Locked == [url_lock |-> "cache_check", md5_lock |-> "lookup",
           dh_lock |-> "dh_update", udh_lock |-> "udh_update",
           row_lock |-> "append"]

DownloaderId(w) == <<"image_downloader", w>>
AnalyzerId(a) == <<"md5_analyzer", a>>

\* mutant: every acquire suspends, as an await asyncio.sleep(0) would
Suspended_AtEveryAcquire(worker) ==
    \/ worker.pc \in {"get", "fetch", "open", "write"}
    \/ worker.pc \in DOMAIN LockOf

\* the coroutine of a worker is suspended
Suspended(worker) ==
    \/ worker.pc \in {"get", "fetch", "open", "write"}
    \/ worker.pc \in DOMAIN LockOf /\ lock[LockOf[worker.pc]] # NoHolder

Running(worker) == worker.pc \notin {"done", "crashed"} /\ ~Suspended(worker)

\* the event loop can resume a suspended coroutine
NoOneRuns ==
    /\ \A w \in Downloaders : ~Running(downloader[w])
    /\ \A a \in Analyzers : ~Running(analyzer[a])

InitLocks ==
    /\ target_urls = {"t1"}
    /\ scraper = [t \in TargetUrls |->
                    [pc |-> IF t = "t1" THEN "done" ELSE "idle",
                     scroll_attempts |-> 0, seen |-> {}]]
    /\ \E snapshot \in Snapshots :
          image_download_queue = ParseCards(snapshot, <<>>, "t1", {}).queue
    /\ md5_analysis_queue = <<>>
    /\ \E run \in EarlierRuns :
          /\ download_history = run.md5
          /\ url_download_history = run.url
          /\ disk = run.disk
    /\ all_search_results_data = <<>>
    /\ downloader = [w \in Downloaders |-> [pc |-> "get", task |-> NoTask]]
    /\ analyzer = [a \in Analyzers |-> [pc |-> "get", task |-> NoTask]]
    /\ main_pc = "scrape"
    /\ history_files = [md5 |-> download_history,
                        url |-> save_url_history_rows(url_download_history)]
    /\ outcome = Empty
    /\ stale_found = {}
    /\ run_log = NoLog
    /\ lock = Unlocked
    /\ aux = NoAux

\* what no step of a worker changes
WorkersKeep ==
    UNCHANGED <<target_urls, scraper, main_pc, history_files, outcome,
                stale_found, run_log, aux>>

\* image_downloader: queue.get() returned
L_D_Get(w) ==
    /\ downloader[w].pc = "get"
    /\ NoOneRuns
    /\ image_download_queue # <<>>
    /\ image_download_queue' = Tail(image_download_queue)
    /\ downloader' =
          IF Head(image_download_queue) = StopMarker
          THEN [downloader EXCEPT ![w].pc = "done"]
          ELSE [downloader EXCEPT
                  ![w] = [pc |-> "url_lock", task |-> Head(image_download_queue)]]
    /\ WorkersKeep
    /\ UNCHANGED <<md5_analysis_queue, download_history, url_download_history,
                   disk, all_search_results_data, analyzer, lock>>

\* image_downloader: async with ..._lock entered
L_D_Acquire(w) ==
    /\ downloader[w].pc \in {"url_lock", "row_lock"}
    /\ lock[LockOf[downloader[w].pc]] = NoHolder
    /\ \A a \in Analyzers : ~Running(analyzer[a])
    /\ \A v \in Downloaders \ {w} : ~Running(downloader[v])
    /\ lock' = [lock EXCEPT ![LockOf[downloader[w].pc]] = DownloaderId(w)]
    /\ downloader' = [downloader EXCEPT ![w].pc = Locked[@]]
    /\ WorkersKeep
    /\ UNCHANGED <<image_download_queue, md5_analysis_queue, download_history,
                   url_download_history, disk, all_search_results_data,
                   analyzer>>

\* mutant: the fetch is started inside async with url_download_history_lock
L_D_CacheCheck_FetchesInside(w) ==
    /\ downloader[w].pc = "cache_check"
    /\ lock.url_download_history = DownloaderId(w)
    /\ lock' = IF download_needed(downloader[w].task)
                  /\ StartsWith(downloader[w].task.image_url, HTTP)
               THEN lock
               ELSE [lock EXCEPT !.url_download_history = NoHolder]
    /\ downloader' =
          IF ~download_needed(downloader[w].task)
          THEN [downloader EXCEPT ![w].pc = "row_lock"]
          ELSE IF StartsWith(downloader[w].task.image_url, HTTP)
          THEN [downloader EXCEPT ![w].pc = "fetch"]
          ELSE [downloader EXCEPT ![w] = [pc |-> "get", task |-> NoTask]]
    /\ WorkersKeep
    /\ UNCHANGED <<image_download_queue, md5_analysis_queue, download_history,
                   url_download_history, disk, all_search_results_data,
                   analyzer>>

\* image_downloader: the cache check under url_download_history_lock, and
\* the branch taken after the lock is released
L_D_CacheCheck(w) ==
    /\ downloader[w].pc = "cache_check"
    /\ lock.url_download_history = DownloaderId(w)
    /\ lock' = [lock EXCEPT !.url_download_history = NoHolder]
    /\ downloader' =
          IF ~download_needed(downloader[w].task)
          THEN [downloader EXCEPT ![w].pc = "row_lock"]
          ELSE IF StartsWith(downloader[w].task.image_url, HTTP)
          THEN [downloader EXCEPT ![w].pc = "fetch"]
          ELSE [downloader EXCEPT ![w] = [pc |-> "get", task |-> NoTask]]
    /\ WorkersKeep
    /\ UNCHANGED <<image_download_queue, md5_analysis_queue, download_history,
                   url_download_history, disk, all_search_results_data,
                   analyzer>>

\* image_downloader: response.read() returned, the item is forwarded
L_D_Fetched(w, image_bytes) ==
    /\ downloader[w].pc = "fetch"
    /\ NoOneRuns
    /\ md5_analysis_queue' =
          Append(md5_analysis_queue, AnalysisItem(downloader[w].task, image_bytes))
    /\ downloader' = [downloader EXCEPT ![w] = [pc |-> "get", task |-> NoTask]]
    /\ WorkersKeep
    /\ UNCHANGED <<image_download_queue, download_history, url_download_history,
                   disk, all_search_results_data, analyzer, lock>>

\* image_downloader: the fetch raised
L_D_FetchFailed(w) ==
    /\ downloader[w].pc = "fetch"
    /\ NoOneRuns
    /\ downloader' = [downloader EXCEPT ![w] = [pc |-> "get", task |-> NoTask]]
    /\ WorkersKeep
    /\ UNCHANGED <<image_download_queue, md5_analysis_queue, download_history,
                   url_download_history, disk, all_search_results_data,
                   analyzer, lock>>

\* image_downloader: the row of a cache hit, appended under
\* all_search_results_data_lock
L_D_Append(w) ==
    /\ downloader[w].pc = "append"
    /\ lock.all_search_results_data = DownloaderId(w)
    /\ all_search_results_data' =
          Append(all_search_results_data, CacheHitRow(downloader[w].task))
    /\ lock' = [lock EXCEPT !.all_search_results_data = NoHolder]
    /\ downloader' = [downloader EXCEPT ![w] = [pc |-> "get", task |-> NoTask]]
    /\ WorkersKeep
    /\ UNCHANGED <<image_download_queue, md5_analysis_queue, download_history,
                   url_download_history, disk, analyzer>>

\* md5_analyzer: queue.get() returned
L_A_Get(a) ==
    /\ analyzer[a].pc = "get"
    /\ NoOneRuns
    /\ md5_analysis_queue # <<>>
    /\ md5_analysis_queue' = Tail(md5_analysis_queue)
    /\ analyzer' =
          IF Head(md5_analysis_queue) = StopMarker
          THEN [analyzer EXCEPT ![a].pc = "done"]
          ELSE [analyzer EXCEPT
                  ![a] = [pc |-> "md5_lock", task |-> Head(md5_analysis_queue)]]
    /\ WorkersKeep
    /\ UNCHANGED <<image_download_queue, download_history, url_download_history,
                   disk, all_search_results_data, downloader, lock>>

\* md5_analyzer: async with ..._lock entered
L_A_Acquire(a) ==
    /\ analyzer[a].pc \in {"md5_lock", "dh_lock", "udh_lock", "row_lock"}
    /\ lock[LockOf[analyzer[a].pc]] = NoHolder
    /\ \A w \in Downloaders : ~Running(downloader[w])
    /\ \A b \in Analyzers \ {a} : ~Running(analyzer[b])
    /\ lock' = [lock EXCEPT ![LockOf[analyzer[a].pc]] = AnalyzerId(a)]
    /\ analyzer' = [analyzer EXCEPT ![a].pc = Locked[@]]
    /\ WorkersKeep
    /\ UNCHANGED <<image_download_queue, md5_analysis_queue, download_history,
                   url_download_history, disk, all_search_results_data,
                   downloader>>

\* md5_analyzer: the look-up in download_history under its lock (it only
\* logs), then the test of os.path.exists(abs_local_filename)
L_A_Lookup(a) ==
    /\ analyzer[a].pc = "lookup"
    /\ lock.download_history = AnalyzerId(a)
    /\ lock' = [lock EXCEPT !.download_history = NoHolder]
    /\ analyzer' = [analyzer EXCEPT
                      ![a].pc = IF WriteNeeded(analyzer[a].task)
                                THEN "makedirs" ELSE "dh_lock"]
    /\ WorkersKeep
    /\ UNCHANGED <<image_download_queue, md5_analysis_queue, download_history,
                   url_download_history, disk, all_search_results_data,
                   downloader>>

\* md5_analyzer: os.makedirs returned, aiofiles.open is awaited
L_A_Makedirs(a) ==
    /\ analyzer[a].pc = "makedirs"
    /\ analyzer' = [analyzer EXCEPT ![a].pc = "open"]
    /\ WorkersKeep
    /\ UNCHANGED <<image_download_queue, md5_analysis_queue, download_history,
                   url_download_history, disk, all_search_results_data,
                   downloader, lock>>

\* md5_analyzer: os.makedirs raised
L_A_MakedirsFailed(a) ==
    /\ analyzer[a].pc = "makedirs"
    /\ analyzer' = [analyzer EXCEPT ![a].pc = "crashed"]
    /\ WorkersKeep
    /\ UNCHANGED <<image_download_queue, md5_analysis_queue, download_history,
                   url_download_history, disk, all_search_results_data,
                   downloader, lock>>

\* md5_analyzer: aiofiles.open returned
L_A_Opened(a) ==
    /\ analyzer[a].pc = "open"
    /\ NoOneRuns
    /\ disk' = Put(disk, abs_local_filename(analyzer[a].task), Partial)
    /\ analyzer' = [analyzer EXCEPT ![a].pc = "write"]
    /\ WorkersKeep
    /\ UNCHANGED <<image_download_queue, md5_analysis_queue, download_history,
                   url_download_history, all_search_results_data, downloader,
                   lock>>

\* md5_analyzer: aiofiles.open or f.write raised, the item is dropped
L_A_SaveFailed(a) ==
    /\ analyzer[a].pc \in {"open", "write"}
    /\ NoOneRuns
    /\ analyzer' = [analyzer EXCEPT ![a] = [pc |-> "get", task |-> NoTask]]
    /\ WorkersKeep
    /\ UNCHANGED <<image_download_queue, md5_analysis_queue, download_history,
                   url_download_history, disk, all_search_results_data,
                   downloader, lock>>

\* md5_analyzer: f.write returned and the file is closed
L_A_Written(a) ==
    /\ analyzer[a].pc = "write"
    /\ NoOneRuns
    /\ disk' = Put(disk, abs_local_filename(analyzer[a].task),
                   analyzer[a].task.image_bytes)
    /\ analyzer' = [analyzer EXCEPT ![a].pc = "dh_lock"]
    /\ WorkersKeep
    /\ UNCHANGED <<image_download_queue, md5_analysis_queue, download_history,
                   url_download_history, all_search_results_data, downloader,
                   lock>>

\* mutant: the update of url_download_history nested inside async with
\* download_history_lock
L_A_UpdateMd5_KeepsLock(a) ==
    /\ analyzer[a].pc = "dh_update"
    /\ lock.download_history = AnalyzerId(a)
    /\ download_history' =
          Put(download_history, calculate_md5(analyzer[a].task.image_bytes),
              abs_local_filename(analyzer[a].task))
    /\ lock' = lock
    /\ analyzer' = [analyzer EXCEPT ![a].pc = "udh_lock"]
    /\ WorkersKeep
    /\ UNCHANGED <<image_download_queue, md5_analysis_queue,
                   url_download_history, disk, all_search_results_data,
                   downloader>>

\* md5_analyzer: download_history[image_content_md5] = abs_local_filename
L_A_UpdateMd5(a) ==
    /\ analyzer[a].pc = "dh_update"
    /\ lock.download_history = AnalyzerId(a)
    /\ download_history' =
          Put(download_history, calculate_md5(analyzer[a].task.image_bytes),
              abs_local_filename(analyzer[a].task))
    /\ lock' = [lock EXCEPT !.download_history = NoHolder]
    /\ analyzer' = [analyzer EXCEPT ![a].pc = "udh_lock"]
    /\ WorkersKeep
    /\ UNCHANGED <<image_download_queue, md5_analysis_queue,
                   url_download_history, disk, all_search_results_data,
                   downloader>>

\* md5_analyzer: url_download_history[unique_url_key] = {...}
L_A_UpdateUrl(a) ==
    /\ analyzer[a].pc = "udh_update"
    /\ lock.url_download_history = AnalyzerId(a)
    /\ url_download_history' =
          Put(url_download_history,
              UrlKey(analyzer[a].task.image_url,
                     analyzer[a].task.original_page_url),
              [local_path |-> abs_local_filename(analyzer[a].task),
               image_md5 |-> calculate_md5(analyzer[a].task.image_bytes)])
    /\ lock' = [lock EXCEPT !.url_download_history = NoHolder]
    /\ analyzer' = [analyzer EXCEPT ![a].pc = "row_lock"]
    /\ WorkersKeep
    /\ UNCHANGED <<image_download_queue, md5_analysis_queue, download_history,
                   disk, all_search_results_data, downloader>>

\* md5_analyzer: the row, appended under all_search_results_data_lock
L_A_Append(a) ==
    /\ analyzer[a].pc = "append"
    /\ lock.all_search_results_data = AnalyzerId(a)
    /\ all_search_results_data' =
          Append(all_search_results_data, AnalyzerRow(analyzer[a].task))
    /\ lock' = [lock EXCEPT !.all_search_results_data = NoHolder]
    /\ analyzer' = [analyzer EXCEPT ![a] = [pc |-> "get", task |-> NoTask]]
    /\ WorkersKeep
    /\ UNCHANGED <<image_download_queue, md5_analysis_queue, download_history,
                   url_download_history, disk, downloader>>

\* main is resumed after gather(*scrape_tasks) and puts the stop markers
L_Signal == NoOneRuns /\ M_Signal

NextLocks ==
    \/ \E w \in Downloaders : L_D_Get(w)
    \/ \E w \in Downloaders : L_D_Acquire(w)
    \/ \E w \in Downloaders : L_D_CacheCheck(w)
    \/ \E w \in Downloaders, b \in ImageBytes : L_D_Fetched(w, b)
    \/ \E w \in Downloaders : L_D_FetchFailed(w)
    \/ \E w \in Downloaders : L_D_Append(w)
    \/ \E a \in Analyzers : L_A_Get(a)
    \/ \E a \in Analyzers : L_A_Acquire(a)
    \/ \E a \in Analyzers : L_A_Lookup(a)
    \/ \E a \in Analyzers : L_A_Makedirs(a)
    \/ \E a \in Analyzers : L_A_MakedirsFailed(a)
    \/ \E a \in Analyzers : L_A_Opened(a)
    \/ \E a \in Analyzers : L_A_SaveFailed(a)
    \/ \E a \in Analyzers : L_A_Written(a)
    \/ \E a \in Analyzers : L_A_UpdateMd5(a)
    \/ \E a \in Analyzers : L_A_UpdateUrl(a)
    \/ \E a \in Analyzers : L_A_Append(a)
    \/ L_Signal

SpecLocks == InitLocks /\ [][NextLocks]_vars

\* ------------------------------------------------ the load of the stores
\* load_download_history and load_url_history at the start of main, the
\* second one row by row

\* the rows a file of the reference-hash store is read from at most
MaxRows == 2

\* a thumbnail URL that holds the separator of the key
ThumbPipe == HTTP \o <<"/", "a", "|", "b">>

\* the cells of a row as load_workbook returns them (<<>>: None)
FileRows ==
    [thumb_url : {Thumb1, ThumbPipe, <<>>}, orig_page_url : {Detail1, <<>>},
     local_path : {Canon1, <<>>}, image_md5 : {"H1"}]

\* the file of the content-hash store: absent, not JSON (empty or corrupt),
\* or the JSON of a store
Md5Files ==
    {[kind |-> "missing"], [kind |-> "corrupt"]}
    \cup [kind : {"json"}, content : {Empty, Put(Empty, "H1", Canon1)}]

\* the file of the reference-hash store: absent, not a workbook, or a
\* workbook of rows; raises_at is the row at which the loop raises (0: none)
UrlFiles ==
    {[kind |-> "missing"], [kind |-> "corrupt"]}
    \cup {[kind |-> "rows", rows |-> rows, raises_at |-> k] :
             rows \in SeqsUpTo(FileRows, MaxRows), k \in 0..MaxRows}

InitLoad ==
    /\ target_urls = {}
    /\ scraper = [t \in TargetUrls |->
                    [pc |-> "idle", scroll_attempts |-> 0, seen |-> {}]]
    /\ image_download_queue = <<>>
    /\ md5_analysis_queue = <<>>
    /\ download_history = Empty
    /\ url_download_history = Empty
    /\ disk = Empty
    /\ all_search_results_data = <<>>
    /\ downloader = [w \in Downloaders |-> [pc |-> "get", task |-> NoTask]]
    /\ analyzer = [a \in Analyzers |-> [pc |-> "get", task |-> NoTask]]
    /\ main_pc = "load"
    /\ history_files = [md5 |-> Empty, url |-> {}]
    /\ outcome = Empty
    /\ stale_found = {}
    /\ run_log = NoLog
    /\ lock = Unlocked
    /\ \E md5_file \in Md5Files, url_file \in UrlFiles :
          /\ url_file.kind = "rows" => url_file.raises_at <= Len(url_file.rows)
          /\ aux = [pc |-> "load_md5", md5_file |-> md5_file,
                    url_file |-> url_file, row_idx |-> 0, raised |-> FALSE]

\* what no step of the load changes
LoadKeeps ==
    UNCHANGED <<target_urls, scraper, image_download_queue, md5_analysis_queue,
                disk, all_search_results_data, downloader, analyzer,
                history_files, outcome, stale_found, run_log, lock>>

\* load_download_history: the store is the JSON of the file, or empty when
\* the file is absent or json.load raised
Load_Md5 ==
    /\ aux.pc = "load_md5"
    /\ download_history' = IF aux.md5_file.kind = "json"
                           THEN aux.md5_file.content ELSE Empty
    /\ aux' = [aux EXCEPT !.pc = "load_url"]
    /\ UNCHANGED <<url_download_history, main_pc>>
    /\ LoadKeeps

\* load_url_history up to the loop: an absent file and a file load_workbook
\* raises on leave the store empty
Load_UrlOpen ==
    /\ aux.pc = "load_url"
    /\ IF aux.url_file.kind = "rows"
       THEN /\ aux' = [aux EXCEPT !.pc = "rows"]
            /\ UNCHANGED url_download_history
       ELSE /\ aux' = [aux EXCEPT !.pc = "loaded",
                                  !.raised = (aux.url_file.kind = "corrupt")]
            /\ url_download_history' = Empty
    /\ UNCHANGED <<download_history, main_pc>>
    /\ LoadKeeps

\* mutant: a row with an empty cell ends the loop
load_url_history_row_StopsAtMalformed(history, row) ==
    IF Len(row.thumb_url) > 0 /\ Len(row.orig_page_url) > 0
       /\ Len(row.local_path) > 0
    THEN Put(history, UrlKey(row.thumb_url, row.orig_page_url),
             [local_path |-> row.local_path,
              image_md5 |-> CellRead(row.image_md5)])
    ELSE Empty

\* the body of the loop of load_url_history: the store after one row
load_url_history_row(history, row) ==
    IF Len(row.thumb_url) > 0 /\ Len(row.orig_page_url) > 0
       /\ Len(row.local_path) > 0
    THEN Put(history, UrlKey(row.thumb_url, row.orig_page_url),
             [local_path |-> row.local_path,
              image_md5 |-> CellRead(row.image_md5)])
    ELSE history

\* mutant: the except branch keeps the rows read so far
Load_UrlRow_KeepsRowsRead ==
    /\ aux.pc = "rows"
    /\ aux.row_idx < Len(aux.url_file.rows)
    /\ IF aux.url_file.raises_at = aux.row_idx + 1
       THEN /\ UNCHANGED url_download_history
            /\ aux' = [aux EXCEPT !.pc = "loaded", !.raised = TRUE]
       ELSE /\ url_download_history' =
                  load_url_history_row(url_download_history,
                                       aux.url_file.rows[aux.row_idx + 1])
            /\ aux' = [aux EXCEPT !.row_idx = @ + 1]
    /\ UNCHANGED <<download_history, main_pc>>
    /\ LoadKeeps

\* one pass of the loop; an exception in it empties the store
Load_UrlRow ==
    /\ aux.pc = "rows"
    /\ aux.row_idx < Len(aux.url_file.rows)
    /\ IF aux.url_file.raises_at = aux.row_idx + 1
       THEN /\ url_download_history' = Empty
            /\ aux' = [aux EXCEPT !.pc = "loaded", !.raised = TRUE]
       ELSE /\ url_download_history' =
                  load_url_history_row(url_download_history,
                                       aux.url_file.rows[aux.row_idx + 1])
            /\ aux' = [aux EXCEPT !.row_idx = @ + 1]
    /\ UNCHANGED <<download_history, main_pc>>
    /\ LoadKeeps

\* the loop is over
Load_UrlDone ==
    /\ aux.pc = "rows"
    /\ aux.row_idx = Len(aux.url_file.rows)
    /\ aux' = [aux EXCEPT !.pc = "loaded"]
    /\ UNCHANGED <<download_history, url_download_history, main_pc>>
    /\ LoadKeeps

\* main goes on after both loads, to the prompt and the start of the workers
Load_Returned ==
    /\ aux.pc = "loaded"
    /\ main_pc = "load"
    /\ main_pc' = "start"
    /\ UNCHANGED <<download_history, url_download_history, aux>>
    /\ LoadKeeps

NextLoad ==
    \/ Load_Md5
    \/ Load_UrlOpen
    \/ Load_UrlRow
    \/ Load_UrlDone
    \/ Load_Returned

SpecLoad == InitLoad /\ [][NextLoad]_vars

\* -------------------------------------------- the end of main, by steps
\* main from gather(*downloader_tasks) to its last line, every call a step

\* the workers have ended, by a stop marker or by an exception; the stores
\* in memory and the store files differ by what this run has added
InitFlush ==
    /\ target_urls = {"t1"}
    /\ scraper = [t \in TargetUrls |->
                    [pc |-> IF t = "t1" THEN "done" ELSE "idle",
                     scroll_attempts |-> 0, seen |-> {}]]
    /\ image_download_queue = <<>>
    /\ md5_analysis_queue = <<>>
    /\ \E run \in EarlierRuns :
          /\ download_history = run.md5
          /\ url_download_history = run.url
          /\ disk = run.disk
    /\ all_search_results_data = <<>>
    /\ downloader = [w \in Downloaders |-> [pc |-> "done", task |-> NoTask]]
    /\ analyzer \in [Analyzers -> {[pc |-> "done", task |-> NoTask],
                                   [pc |-> "crashed", task |-> NoTask]}]
    /\ main_pc = "join_downloaders"
    /\ \E run \in EarlierRuns :
          history_files = [md5 |-> run.md5,
                           url |-> save_url_history_rows(run.url)]
    /\ outcome = Empty
    /\ stale_found = {}
    /\ run_log = NoLog
    /\ lock = Unlocked
    /\ aux = [pc |-> "flush", files |-> history_files, exported |-> FALSE,
              flushed |-> <<>>]

FlushKeeps ==
    UNCHANGED <<target_urls, scraper, image_download_queue, md5_analysis_queue,
                download_history, url_download_history, disk,
                all_search_results_data, downloader, analyzer, outcome,
                stale_found, run_log, lock>>

\* wb.save(excel_filename) returned
F_ExportSaved ==
    /\ main_pc = "export"
    /\ main_pc' = "save_download_history"
    /\ aux' = [aux EXCEPT !.exported = TRUE]
    /\ UNCHANGED history_files
    /\ FlushKeeps

\* mutant: the stores are saved in a finally block when the export raises
F_ExportFailed_Flushes ==
    /\ main_pc = "export"
    /\ main_pc' = "failed"
    /\ history_files' = [md5 |-> download_history,
                         url |-> save_url_history_rows(url_download_history)]
    /\ aux' = [aux EXCEPT !.flushed = <<"md5", "url">>]
    /\ FlushKeeps

\* building or saving the workbook raised: main ends with the exception
F_ExportFailed ==
    /\ main_pc = "export"
    /\ main_pc' = "failed"
    /\ UNCHANGED <<history_files, aux>>
    /\ FlushKeeps

\* save_download_history wrote the file
F_SaveMd5 ==
    /\ main_pc = "save_download_history"
    /\ main_pc' = "save_url_history"
    /\ history_files' = [history_files EXCEPT !.md5 = download_history]
    /\ aux' = [aux EXCEPT !.flushed = Append(@, "md5")]
    /\ FlushKeeps

\* save_download_history caught an exception and logged it
F_SaveMd5Failed ==
    /\ main_pc = "save_download_history"
    /\ main_pc' = "save_url_history"
    /\ aux' = [aux EXCEPT !.flushed = Append(@, "md5")]
    /\ UNCHANGED history_files
    /\ FlushKeeps

\* save_url_history wrote the file
F_SaveUrl ==
    /\ main_pc = "save_url_history"
    /\ main_pc' = "finished"
    /\ history_files' =
          [history_files EXCEPT
              !.url = save_url_history_rows(url_download_history)]
    /\ aux' = [aux EXCEPT !.flushed = Append(@, "url")]
    /\ FlushKeeps

\* save_url_history caught an exception and logged it
F_SaveUrlFailed ==
    /\ main_pc = "save_url_history"
    /\ main_pc' = "finished"
    /\ aux' = [aux EXCEPT !.flushed = Append(@, "url")]
    /\ UNCHANGED history_files
    /\ FlushKeeps

NextFlush ==
    \/ M_JoinDownloaders
    \/ M_JoinAnalyzers
    \/ M_JoinAnalyzersRaised
    \/ F_ExportSaved
    \/ F_ExportFailed
    \/ F_SaveMd5
    \/ F_SaveMd5Failed
    \/ F_SaveUrl
    \/ F_SaveUrlFailed

SpecFlush == InitFlush /\ [][NextFlush]_vars

\* ------------------------------------------- main.py: process_image_data
\* the single-stage version: every performCivitaiImageScrape task calls
\* process_image_data for the cards it finds; the tasks run under one gather

\* calls of process_image_data per task
MaxCalls == 2

NoCall == [pc |-> "idle", image_url |-> <<>>, image_bytes |-> NoValue, calls |-> 0]

InitMain ==
    /\ target_urls = TargetUrls
    /\ scraper = [t \in TargetUrls |->
                    [pc |-> "scroll", scroll_attempts |-> 0, seen |-> {}]]
    /\ image_download_queue = <<>>
    /\ md5_analysis_queue = <<>>
    /\ \E run \in {[md5 |-> Empty, disk |-> Empty],
                   [md5 |-> Put(Empty, "H1", Canon1),
                    disk |-> Put(Empty, Canon1, "B1")]} :
          /\ download_history = run.md5
          /\ disk = run.disk
    /\ url_download_history = Empty
    /\ all_search_results_data = <<>>
    /\ downloader = [w \in Downloaders |-> [pc |-> "done", task |-> NoTask]]
    /\ analyzer = [a \in Analyzers |-> [pc |-> "done", task |-> NoTask]]
    /\ main_pc = "scrape"
    /\ history_files = [md5 |-> download_history, url |-> {}]
    /\ outcome = Empty
    /\ stale_found = {}
    /\ run_log = NoLog
    /\ lock = Unlocked
    /\ aux = [pc |-> "process_image_data",
              call |-> [t \in TargetUrls |-> NoCall],
              written |-> Empty, returned |-> {}]

MainKeeps ==
    UNCHANGED <<target_urls, scraper, image_download_queue, md5_analysis_queue,
                url_download_history, all_search_results_data, downloader,
                analyzer, main_pc, history_files, outcome, stale_found,
                run_log, lock>>

\* os.path.join(base_folder_path, f"{image_content_md5}.{file_extension}")
local_filename(call) ==
    CanonicalPath(ImageDir, calculate_md5(call.image_bytes),
                  FileExtension(call.image_url))

\* process_image_data returns to its caller
Return(t, result) ==
    aux' = [aux EXCEPT
              !.call[t] = [NoCall EXCEPT !.calls = aux.call[t].calls],
              !.returned = IF result = NoValue THEN @ ELSE @ \cup {result}]

\* process_image_data(image_url, ...) is called: an empty or unsupported URL
\* returns (None, None), an http URL is fetched
P_Call(t, image_url) ==
    /\ aux.call[t].pc = "idle"
    /\ aux.call[t].calls < MaxCalls
    /\ aux' = [aux EXCEPT
                 !.call[t] =
                    [pc |-> IF Len(image_url) > 0 /\ StartsWith(image_url, HTTP)
                            THEN "fetch" ELSE "idle",
                     image_url |-> IF Len(image_url) > 0
                                      /\ StartsWith(image_url, HTTP)
                                   THEN image_url ELSE <<>>,
                     image_bytes |-> NoValue,
                     calls |-> aux.call[t].calls + 1]]
    /\ UNCHANGED <<download_history, disk>>
    /\ MainKeeps

\* response.read() returned: bytes known to download_history are answered
\* from it, for other bytes the file is opened
P_Fetched(t, image_bytes) ==
    /\ aux.call[t].pc = "fetch"
    /\ IF calculate_md5(image_bytes) \in DOMAIN download_history
       THEN Return(t, <<calculate_md5(image_bytes),
                        download_history[calculate_md5(image_bytes)]>>)
       ELSE aux' = [aux EXCEPT !.call[t].pc = "open",
                               !.call[t].image_bytes = image_bytes]
    /\ UNCHANGED <<download_history, disk>>
    /\ MainKeeps

\* the fetch raised: (None, None)
P_FetchFailed(t) ==
    /\ aux.call[t].pc = "fetch"
    /\ Return(t, NoValue)
    /\ UNCHANGED <<download_history, disk>>
    /\ MainKeeps

\* aiofiles.open(local_filename, 'wb') returned
P_Opened(t) ==
    /\ aux.call[t].pc = "open"
    /\ disk' = Put(disk, local_filename(aux.call[t]), Partial)
    /\ aux' = [aux EXCEPT !.call[t].pc = "write"]
    /\ UNCHANGED download_history
    /\ MainKeeps

\* aiofiles.open raised: (None, None)
P_OpenFailed(t) ==
    /\ aux.call[t].pc = "open"
    /\ Return(t, NoValue)
    /\ UNCHANGED <<download_history, disk>>
    /\ MainKeeps

\* f.write returned: the hash is recorded and the path returned
P_Written(t) ==
    /\ aux.call[t].pc = "write"
    /\ disk' = Put(disk, local_filename(aux.call[t]), aux.call[t].image_bytes)
    /\ download_history' =
          Put(download_history, calculate_md5(aux.call[t].image_bytes),
              local_filename(aux.call[t]))
    /\ aux' = [aux EXCEPT
                 !.call[t] = [NoCall EXCEPT !.calls = aux.call[t].calls],
                 !.returned = @ \cup {<<calculate_md5(aux.call[t].image_bytes),
                                        local_filename(aux.call[t])>>},
                 !.written = Counted(@, calculate_md5(aux.call[t].image_bytes))]
    /\ MainKeeps

\* f.write raised: (None, None)
P_WriteFailed(t) ==
    /\ aux.call[t].pc = "write"
    /\ Return(t, NoValue)
    /\ UNCHANGED <<download_history, disk>>
    /\ MainKeeps

NextMain ==
    \/ \E t \in TargetUrls, image_url \in {Thumb1, Thumb2, ThumbBad, <<>>} :
          P_Call(t, image_url)
    \/ \E t \in TargetUrls, b \in ImageBytes : P_Fetched(t, b)
    \/ \E t \in TargetUrls : P_FetchFailed(t)
    \/ \E t \in TargetUrls : P_Opened(t)
    \/ \E t \in TargetUrls : P_OpenFailed(t)
    \/ \E t \in TargetUrls : P_Written(t)
    \/ \E t \in TargetUrls : P_WriteFailed(t)

SpecMain == InitMain /\ [][NextMain]_vars

\* ------------------------------------ mainCompare.py: process_image_data
\* the URL-hash version, one call after the other

\* hashlib.sha256(data_string.encode('utf-8')).hexdigest()
calculate_sha256(data_string) == <<"sha256", data_string>>

\* os.path.join(IMAGE_DIR_BASE, keyword)
KeywordFolders == {"images/k1", "images/k2"}

\* os.path.join(keyword_folder_path, f"{identifier_hash}.{file_extension}")
local_filename_from_url(image_url, keyword_folder_path) ==
    CanonicalPath(keyword_folder_path, calculate_sha256(image_url),
                  FileExtension(image_url))

\* what an earlier run left for a URL: nothing, an entry and its file, or
\* an entry whose file is gone
Leftovers(image_url) ==
    {[md5 |-> Empty, disk |-> Empty],
     [md5 |-> Put(Empty, calculate_sha256(image_url),
                  local_filename_from_url(image_url, "images/k1")),
      disk |-> Put(Empty, local_filename_from_url(image_url, "images/k1"), "B1")],
     [md5 |-> Put(Empty, calculate_sha256(image_url),
                  local_filename_from_url(image_url, "images/k1")),
      disk |-> Empty]}

Merge(f, g) == [x \in DOMAIN f \cup DOMAIN g |-> IF x \in DOMAIN f THEN f[x] ELSE g[x]]

Without(f, k) == [x \in DOMAIN f \ {k} |-> f[x]]

Idle == [pc |-> "idle", image_url |-> <<>>, keyword_folder_path |-> NoValue,
         image_bytes |-> NoValue, redownload |-> FALSE]

InitCompare ==
    /\ target_urls = {"t1"}
    /\ scraper = [t \in TargetUrls |->
                    [pc |-> IF t = "t1" THEN "scroll" ELSE "idle",
                     scroll_attempts |-> 0, seen |-> {}]]
    /\ image_download_queue = <<>>
    /\ md5_analysis_queue = <<>>
    /\ \E first \in Leftovers(Thumb1), second \in Leftovers(Thumb2) :
          /\ download_history = Merge(first.md5, second.md5)
          /\ disk = Merge(first.disk, second.disk)
    /\ url_download_history = Empty
    /\ all_search_results_data = <<>>
    /\ downloader = [w \in Downloaders |-> [pc |-> "done", task |-> NoTask]]
    /\ analyzer = [a \in Analyzers |-> [pc |-> "done", task |-> NoTask]]
    /\ main_pc = "scrape"
    /\ history_files = [md5 |-> download_history, url |-> {}]
    /\ outcome = Empty
    /\ stale_found = {}
    /\ run_log = NoLog
    /\ lock = Unlocked
    /\ aux = [pc |-> "process_image_data", call |-> Idle, calls |-> 0,
              result |-> NoValue]

CompareKeeps ==
    UNCHANGED <<target_urls, scraper, image_download_queue, md5_analysis_queue,
                url_download_history, all_search_results_data, downloader,
                analyzer, main_pc, history_files, outcome, stale_found,
                run_log, lock>>

\* mutant: an entry whose file is missing is kept while the image is
\* downloaded again
G_Call_KeepsEntry(image_url, keyword_folder_path) ==
    /\ aux.call.pc = "idle"
    /\ aux.calls < MaxCalls
    /\ LET identifier_hash == calculate_sha256(image_url)
       IN  /\ aux' =
                 IF Len(image_url) = 0 \/ ~StartsWith(image_url, HTTP)
                 THEN [aux EXCEPT !.calls = @ + 1, !.call = Idle,
                                  !.result = <<NoValue, NoValue>>]
                 ELSE IF identifier_hash \in DOMAIN download_history
                         /\ Exists(download_history[identifier_hash])
                 THEN [aux EXCEPT
                         !.calls = @ + 1,
                         !.call = Idle,
                         !.result = <<download_history[identifier_hash],
                                      identifier_hash>>]
                 ELSE [aux EXCEPT
                         !.calls = @ + 1,
                         !.result = NoValue,
                         !.call = [pc |-> "fetch", image_url |-> image_url,
                                   keyword_folder_path |-> keyword_folder_path,
                                   image_bytes |-> NoValue,
                                   redownload |->
                                      identifier_hash \in DOMAIN download_history]]
           /\ download_history' = download_history
    /\ UNCHANGED disk
    /\ CompareKeeps

\* process_image_data(image_url, keyword_folder_path, ...) is called: an
\* empty or unsupported URL returns (None, None); a URL whose hash is in
\* download_history with its file in place returns that path; an entry
\* whose file is missing is deleted, and the image is fetched
G_Call(image_url, keyword_folder_path) ==
    /\ aux.call.pc = "idle"
    /\ aux.calls < MaxCalls
    /\ LET identifier_hash == calculate_sha256(image_url)
       IN  /\ aux' =
                 IF Len(image_url) = 0 \/ ~StartsWith(image_url, HTTP)
                 THEN [aux EXCEPT !.calls = @ + 1, !.call = Idle,
                                  !.result = <<NoValue, NoValue>>]
                 ELSE IF identifier_hash \in DOMAIN download_history
                         /\ Exists(download_history[identifier_hash])
                 THEN [aux EXCEPT
                         !.calls = @ + 1,
                         !.call = Idle,
                         !.result = <<download_history[identifier_hash],
                                      identifier_hash>>]
                 ELSE [aux EXCEPT
                         !.calls = @ + 1,
                         !.result = NoValue,
                         !.call = [pc |-> "fetch", image_url |-> image_url,
                                   keyword_folder_path |-> keyword_folder_path,
                                   image_bytes |-> NoValue,
                                   redownload |->
                                      identifier_hash \in DOMAIN download_history]]
           /\ download_history' =
                 IF /\ Len(image_url) > 0 /\ StartsWith(image_url, HTTP)
                    /\ identifier_hash \in DOMAIN download_history
                    /\ ~Exists(download_history[identifier_hash])
                 THEN Without(download_history, identifier_hash)
                 ELSE download_history
    /\ UNCHANGED disk
    /\ CompareKeeps

\* an except clause was reached: (None, None); the URL of the call stays
\* on record until the next call
ReturnNone ==
    aux' = [aux EXCEPT
              !.result = <<NoValue, NoValue>>,
              !.call = [Idle EXCEPT !.image_url = aux.call.image_url,
                                    !.redownload = aux.call.redownload]]

\* response.read() returned and the directory was made
G_Fetched(image_bytes) ==
    /\ aux.call.pc = "fetch"
    /\ aux' = [aux EXCEPT !.call.pc = "open", !.call.image_bytes = image_bytes]
    /\ UNCHANGED <<download_history, disk>>
    /\ CompareKeeps

\* session.get, raise_for_status, response.read or os.makedirs raised
G_FetchFailed ==
    /\ aux.call.pc = "fetch"
    /\ ReturnNone
    /\ UNCHANGED <<download_history, disk>>
    /\ CompareKeeps

\* aiofiles.open(local_filename_from_url, 'wb') returned
G_Opened ==
    /\ aux.call.pc = "open"
    /\ disk' = Put(disk, local_filename_from_url(aux.call.image_url,
                                                 aux.call.keyword_folder_path),
                   Partial)
    /\ aux' = [aux EXCEPT !.call.pc = "write"]
    /\ UNCHANGED download_history
    /\ CompareKeeps

\* aiofiles.open raised
G_OpenFailed ==
    /\ aux.call.pc = "open"
    /\ ReturnNone
    /\ UNCHANGED <<download_history, disk>>
    /\ CompareKeeps

\* f.write returned: the URL hash is recorded and the path returned
G_Written ==
    /\ aux.call.pc = "write"
    /\ LET path == local_filename_from_url(aux.call.image_url,
                                           aux.call.keyword_folder_path)
       IN  /\ disk' = Put(disk, path, aux.call.image_bytes)
           /\ download_history' =
                 Put(download_history, calculate_sha256(aux.call.image_url), path)
           /\ aux' = [aux EXCEPT
                        !.result = <<path, calculate_sha256(aux.call.image_url)>>,
                        !.call = [Idle EXCEPT
                                    !.image_url = aux.call.image_url,
                                    !.redownload = aux.call.redownload]]
    /\ CompareKeeps

\* f.write raised
G_WriteFailed ==
    /\ aux.call.pc = "write"
    /\ ReturnNone
    /\ UNCHANGED <<download_history, disk>>
    /\ CompareKeeps

NextCompare ==
    \/ \E image_url \in {Thumb1, Thumb2, ThumbBad, <<>>},
          keyword_folder_path \in KeywordFolders :
          G_Call(image_url, keyword_folder_path)
    \/ \E b \in ImageBytes : G_Fetched(b)
    \/ G_FetchFailed
    \/ G_Opened
    \/ G_OpenFailed
    \/ G_Written
    \/ G_WriteFailed

SpecCompare == InitCompare /\ [][NextCompare]_vars

\* ------------------------------------------- main.py: the scroll loop
\* performCivitaiImageScrape of main.py from its while loop to page.close()

max_scroll_attempts == 30
\* the passes without a new card after which the loop stops
no_new_images_limit == 3

\* the href of the a around the img of a card, made absolute
DetailPageUrl(href) ==
    IF Len(href) > 0 /\ ~StartsWith(href, HTTP) THEN CIVITAI \o href ELSE href

\* the boxes query_selector_all returns after a scroll, by their href
ImageBoxes == SUBSET {Detail1, Detail2, <<>>}

\* the boxes of a pass whose detail-page URL is counted as newly processed
NewlyProcessed(image_box_elements, processed_image_detail_urls) ==
    {DetailPageUrl(href) : href \in image_box_elements}
        \ (processed_image_detail_urls \cup {<<>>})

\* the last passes, the latest last: at most no_new_images_limit of them
Latest(passes) ==
    IF Len(passes) <= no_new_images_limit
    THEN passes
    ELSE SubSeq(passes, Len(passes) - no_new_images_limit + 1, Len(passes))

InitScroll ==
    /\ target_urls = {"t1"}
    /\ scraper = [t \in TargetUrls |->
                    [pc |-> IF t = "t1" THEN "scroll" ELSE "idle",
                     scroll_attempts |-> 0, seen |-> {}]]
    /\ image_download_queue = <<>>
    /\ md5_analysis_queue = <<>>
    /\ download_history = Empty
    /\ url_download_history = Empty
    /\ disk = Empty
    /\ all_search_results_data = <<>>
    /\ downloader = [w \in Downloaders |-> [pc |-> "done", task |-> NoTask]]
    /\ analyzer = [a \in Analyzers |-> [pc |-> "done", task |-> NoTask]]
    /\ main_pc = "scrape"
    /\ history_files = [md5 |-> Empty, url |-> {}]
    /\ outcome = Empty
    /\ stale_found = {}
    /\ run_log = NoLog
    /\ lock = Unlocked
    /\ aux = [pc |-> "while", scroll_attempts |-> 0, no_new_images_count |-> 0,
              processed_image_detail_urls |-> {}, passes |-> <<>>,
              raised |-> FALSE]

ScrollKeeps ==
    UNCHANGED <<target_urls, scraper, image_download_queue, md5_analysis_queue,
                download_history, url_download_history, disk,
                all_search_results_data, downloader, analyzer, main_pc,
                history_files, outcome, stale_found, run_log, lock>>

\* what a pass was: it found a new card, cards but no new one, or no card
PassKind(image_box_elements, processed_image_detail_urls) ==
    IF NewlyProcessed(image_box_elements, processed_image_detail_urls) # {}
    THEN "new"
    ELSE IF image_box_elements # {} THEN "none_new" ELSE "no_card"

\* mutant: the counter is not reset by a pass that finds a new card
SC_Pass_NoReset(image_box_elements) ==
    /\ aux.pc = "while"
    /\ aux.scroll_attempts < max_scroll_attempts
    /\ LET newly_processed_this_scroll ==
              NewlyProcessed(image_box_elements, aux.processed_image_detail_urls)
           no_new_images_count ==
              IF newly_processed_this_scroll = {} /\ image_box_elements # {}
              THEN aux.no_new_images_count + 1
              ELSE aux.no_new_images_count
       IN  aux' = [aux EXCEPT
                     !.scroll_attempts = @ + 1,
                     !.processed_image_detail_urls =
                        @ \cup newly_processed_this_scroll,
                     !.no_new_images_count = no_new_images_count,
                     !.passes =
                        Latest(Append(@, PassKind(image_box_elements,
                                          aux.processed_image_detail_urls))),
                     !.pc = IF newly_processed_this_scroll = {}
                               /\ image_box_elements # {}
                               /\ no_new_images_count >= no_new_images_limit
                            THEN "closed" ELSE "while"]
    /\ ScrollKeeps

\* one pass of the while loop: the scroll, the boxes found, the cards
\* processed, and the count of passes without a new card
SC_Pass(image_box_elements) ==
    /\ aux.pc = "while"
    /\ aux.scroll_attempts < max_scroll_attempts
    /\ LET newly_processed_this_scroll ==
              NewlyProcessed(image_box_elements, aux.processed_image_detail_urls)
           no_new_images_count ==
              IF newly_processed_this_scroll = {} /\ image_box_elements # {}
              THEN aux.no_new_images_count + 1
              ELSE 0
       IN  aux' = [aux EXCEPT
                     !.scroll_attempts = @ + 1,
                     !.processed_image_detail_urls =
                        @ \cup newly_processed_this_scroll,
                     !.no_new_images_count = no_new_images_count,
                     !.passes =
                        Latest(Append(@, PassKind(image_box_elements,
                                          aux.processed_image_detail_urls))),
                     !.pc = IF newly_processed_this_scroll = {}
                               /\ image_box_elements # {}
                               /\ no_new_images_count >= no_new_images_limit
                            THEN "closed" ELSE "while"]
    /\ ScrollKeeps

\* wait_for_selector timed out, or a statement of the pass raised: break
SC_PassRaised ==
    /\ aux.pc = "while"
    /\ aux.scroll_attempts < max_scroll_attempts
    /\ aux' = [aux EXCEPT !.scroll_attempts = @ + 1, !.pc = "closed",
                          !.raised = TRUE]
    /\ ScrollKeeps

\* the condition of the while loop is false: page.close()
SC_LoopEnd ==
    /\ aux.pc = "while"
    /\ aux.scroll_attempts >= max_scroll_attempts
    /\ aux' = [aux EXCEPT !.pc = "closed"]
    /\ ScrollKeeps

NextScroll ==
    \/ \E image_box_elements \in ImageBoxes : SC_Pass(image_box_elements)
    \/ SC_PassRaised
    \/ SC_LoopEnd

SpecScroll == InitScroll /\ [][NextScroll]_vars

\* ------------------------------------------- the functions, on their own
\* _parse_card_container and the extension of image_downloader applied to
\* inputs of their own

\* the src of an img: a thumbnail URL, a data URL, or none ("" or absent)
CardSrcs == {Thumb1, Thumb2, ThumbBad, <<>>}
\* the href of the enclosing a: absolute, relative, or none
CardHrefs == {Detail1, Detail2, <<>>}

\* URLs with and without a suffix, a query and a '.' in the query
UrlStems == {<<>>, <<"d">>, <<"/", "a">>, <<"/", "a", ".", "b">>}
UrlSuffixes ==
    {<<>>, <<".">>, <<".", "P", "N", "G">>, <<".", "j", "p", "g">>,
     <<".", "a", "b", "c", "d", "g">>, <<".", "a", "b", "c", "d", "g", "h">>,
     <<".", "p", "4">>}
UrlQueries == {<<>>, <<"?", "n">>, <<"?", "n", ".", "p", "n", "g">>}
\* the bare word and the scheme with its separator
UrlSchemes == {HTTP, HTTP \o <<":", "/">>}
ImageUrls ==
    {scheme \o stem \o suffix \o query :
        scheme \in UrlSchemes, stem \in UrlStems, suffix \in UrlSuffixes,
        query \in UrlQueries}

\* URLs that hold the separator of the key
ThumbA == HTTP \o <<"/", "a">>
ThumbAB == HTTP \o <<"/", "a", "|">> \o HTTP \o <<"/", "b">>
DetailC == HTTP \o <<"/", "c">>
DetailBC == HTTP \o <<"/", "b", "|">> \o HTTP \o <<"/", "c">>
PipeCards == [src : {ThumbA, ThumbAB}, href : {DetailC, DetailBC}]

\* the seen-sets a pass can hold: keys of cards found before
SeenKeys ==
    UNION {_parse_card_container(card, <<>>, "t1", {}).seen :
              card \in [src : CardSrcs, href : CardHrefs]}

FunctionInputs ==
    [fn : {"card"}, card : [src : CardSrcs, href : CardHrefs],
     seen : SUBSET SeenKeys]
    \cup [fn : {"extension"}, image_url : ImageUrls]
    \cup [fn : {"cards"}, first : PipeCards, second : PipeCards]

InitFunctions ==
    /\ target_urls = {"t1"}
    /\ scraper = [t \in TargetUrls |->
                    [pc |-> "idle", scroll_attempts |-> 0, seen |-> {}]]
    /\ image_download_queue = <<>>
    /\ md5_analysis_queue = <<>>
    /\ download_history = Empty
    /\ url_download_history = Empty
    /\ disk = Empty
    /\ all_search_results_data = <<>>
    /\ downloader = [w \in Downloaders |-> [pc |-> "get", task |-> NoTask]]
    /\ analyzer = [a \in Analyzers |-> [pc |-> "get", task |-> NoTask]]
    /\ main_pc = "scrape"
    /\ history_files = [md5 |-> Empty, url |-> {}]
    /\ outcome = Empty
    /\ stale_found = {}
    /\ run_log = NoLog
    /\ lock = Unlocked
    /\ \E input \in FunctionInputs :
          aux = [pc |-> "input", input |-> input, result |-> NoValue]

FunctionsKeep ==
    UNCHANGED <<target_urls, scraper, image_download_queue, md5_analysis_queue,
                download_history, url_download_history, disk,
                all_search_results_data, downloader, analyzer, main_pc,
                history_files, outcome, stale_found, run_log, lock>>

\* _parse_card_container on one card, with the seen-set of any pass
F_ParseCard ==
    /\ aux.pc = "input"
    /\ aux.input.fn = "card"
    /\ aux' = [aux EXCEPT
                 !.pc = "done",
                 !.result = _parse_card_container(aux.input.card, <<>>, "t1",
                                                  aux.input.seen)]
    /\ FunctionsKeep

\* one pass over two cards
F_ParseCards ==
    /\ aux.pc = "input"
    /\ aux.input.fn = "cards"
    /\ aux' = [aux EXCEPT
                 !.pc = "done",
                 !.result = ParseCards(<<aux.input.first, aux.input.second>>,
                                       <<>>, "t1", {})]
    /\ FunctionsKeep

\* the extension image_downloader derives
F_Extension ==
    /\ aux.pc = "input"
    /\ aux.input.fn = "extension"
    /\ aux' = [aux EXCEPT !.pc = "done",
                          !.result = FileExtension(aux.input.image_url)]
    /\ FunctionsKeep

NextFunctions == F_ParseCard \/ F_ParseCards \/ F_Extension

SpecFunctions == InitFunctions /\ [][NextFunctions]_vars

\* ----------------------------------- the reference-hash store, round trip
\* a card whose img has no enclosing a: its detail-page URL stays ""
UnlinkedCard == [src |-> Thumb1, href |-> <<>>]

\* the keys under which the pipeline records the cards
RecordedKeys ==
    UNION {_parse_card_container(card, <<>>, "t1", {}).seen :
              card \in Cards \cup {UnlinkedCard}}

\* the records md5_analyzer and load_url_history store: a path, and the
\* hash or None
Records ==
    [local_path : {Canon1, OldPath}, image_md5 : {"H1", NoValue}]

\* the stores a run can end with
Stores == UNION {[keys -> Records] : keys \in SUBSET RecordedKeys}

InitRoundTrip ==
    /\ target_urls = {}
    /\ scraper = [t \in TargetUrls |->
                    [pc |-> "idle", scroll_attempts |-> 0, seen |-> {}]]
    /\ image_download_queue = <<>>
    /\ md5_analysis_queue = <<>>
    /\ download_history = Empty
    /\ url_download_history \in Stores
    /\ disk = Empty
    /\ all_search_results_data = <<>>
    /\ downloader = [w \in Downloaders |-> [pc |-> "done", task |-> NoTask]]
    /\ analyzer = [a \in Analyzers |-> [pc |-> "done", task |-> NoTask]]
    /\ main_pc = "export"
    /\ history_files = [md5 |-> Empty, url |-> {}]
    /\ outcome = Empty
    /\ stale_found = {}
    /\ run_log = NoLog
    /\ lock = Unlocked
    /\ aux = [pc |-> "store", loaded |-> Empty]

\* save_url_history(HISTORY_IMG_URL_FILE) at the end of main
RT_Save ==
    /\ aux.pc = "store"
    /\ history_files' = [history_files EXCEPT
                            !.url = save_url_history_rows(url_download_history)]
    /\ aux' = [aux EXCEPT !.pc = "saved"]
    /\ UNCHANGED <<target_urls, scraper, image_download_queue,
                   md5_analysis_queue, download_history, url_download_history,
                   disk, all_search_results_data, downloader, analyzer,
                   main_pc, outcome, stale_found, run_log, lock>>

\* load_url_history(HISTORY_IMG_URL_FILE) at the start of the next run
RT_Load ==
    /\ aux.pc = "saved"
    /\ aux' = [pc |-> "loaded", loaded |-> load_url_history(history_files.url)]
    /\ UNCHANGED <<target_urls, scraper, image_download_queue,
                   md5_analysis_queue, download_history, url_download_history,
                   disk, all_search_results_data, downloader, analyzer,
                   main_pc, history_files, outcome, stale_found, run_log, lock>>

NextRoundTrip == RT_Save \/ RT_Load

SpecRoundTrip == InitRoundTrip /\ [][NextRoundTrip]_vars

\* ================================================================ claims
RowId(row) == <<row.search_url, row.thumbnail_url, row.original_page_url>>
KeyOf(id) == UrlKey(id[2], id[3])
Rows == {all_search_results_data[i] : i \in DOMAIN all_search_results_data}
RowsOf(id) == {i \in DOMAIN all_search_results_data :
                  RowId(all_search_results_data[i]) = id}
\* the outcomes of a task that md5_analyzer has published
Persisted == {"written", "skipped"}
\* main is past both gather calls
Joined == main_pc \in {"export", "finished", "returned"}
\* the files of the image directory whose name is the hash h
FilesNamed(h) == {p \in DOMAIN disk : p[1] = ImageDir /\ p[2] = h}

\* C1: two tasks with identical fetched bytes that md5_analyzer has both
\* processed have rows with the same local path and the same hash, and
\* one file holds that content in the image directory, whatever the
\* extensions of the two source URLs
C1_SameBytesSamePath ==
    \A r1 \in Rows, r2 \in Rows :
        ( /\ RowId(r1) # RowId(r2)
          /\ outcome[RowId(r1)] \in Persisted
          /\ outcome[RowId(r2)] \in Persisted
          /\ r1.image_md5 = r2.image_md5 )
        => /\ r1.local_path = r2.local_path
           /\ Cardinality(FilesNamed(r1.image_md5)) = 1

\* C2: when main has joined the downloaders and the analyzers, no item of
\* an image_downloader is left on md5_analysis_queue
C2_QueueDrained ==
    Joined => \A i \in DOMAIN md5_analysis_queue :
                 md5_analysis_queue[i] = StopMarker

\* C3: a stop marker is on image_download_queue only when every
\* performCivitaiImageScrape has returned, and on md5_analysis_queue only
\* when every image_downloader has exited
C3_MarkersAfterProducers ==
    /\ (\E i \in DOMAIN image_download_queue :
            image_download_queue[i] = StopMarker)
       => \A t \in target_urls : scraper[t].pc = "done"
    /\ (\E i \in DOMAIN md5_analysis_queue :
            md5_analysis_queue[i] = StopMarker)
       => \A w \in Downloaders : downloader[w].pc = "done"

\* C4: when main has joined all workers, a task has one row if it ended in
\* a cache hit or in a write or a skipped write, and no row otherwise
\* (fetch failed, write failed, never processed); never two rows
C4_OneRowPerResolvedTask ==
    Joined =>
        \A id \in DOMAIN outcome :
            Cardinality(RowsOf(id)) =
                IF outcome[id] \in Persisted \cup {"cache_hit"} THEN 1 ELSE 0

C4_Witness ==
    /\ Joined
    /\ \E id1 \in DOMAIN outcome, id2 \in DOMAIN outcome :
          /\ outcome[id1] = "written"
          /\ outcome[id2] \in {"fetch_failed", "write_failed"}
          /\ Cardinality(RowsOf(id1)) = 1
          /\ RowsOf(id2) = {}

\* C5: a record whose file was found missing by a cache check is discarded:
\* no checked key keeps a record of a missing file, and none is flushed
C5_StaleRecordDiscarded ==
    /\ \A id \in stale_found :
          outcome[id] \in {"fetching", "fetch_failed"}
          => KeyOf(id) \notin DOMAIN url_download_history
    /\ main_pc = "finished"
       => \A id \in stale_found, row \in history_files.url :
             UrlKey(row.thumb_url, row.orig_page_url) = KeyOf(id)
             => Exists(row.local_path)

\* C6: when the stores are flushed, a reference whose record was stale and
\* whose fetch and write succeeded has its key mapped to an existing file
\* and hash, and download_history maps that hash to that same file
C6_SelfHealing ==
    main_pc = "finished" =>
        \A id \in stale_found :
            outcome[id] = "written"
            => /\ KeyOf(id) \in DOMAIN url_download_history
               /\ LET rec == url_download_history[KeyOf(id)]
                  IN  /\ Exists(rec.local_path)
                      /\ rec.image_md5 \in DOMAIN download_history
                      /\ download_history[rec.image_md5] = rec.local_path

\* a step in which an md5_analyzer takes an item off md5_analysis_queue
AnalyzerTakesItem ==
    /\ md5_analysis_queue # <<>>
    /\ Head(md5_analysis_queue) # StopMarker
    /\ md5_analysis_queue' = Tail(md5_analysis_queue)

\* the step writes no file and starts no write, and publishes the item's
\* row with the local path path
SkipsAndPublishes(item, path) ==
    /\ disk' = disk
    /\ analyzer' = analyzer
    /\ Len(all_search_results_data') = Len(all_search_results_data) + 1
    /\ LET row == all_search_results_data'[Len(all_search_results_data')]
       IN  /\ RowId(row) = TaskId(item)
           /\ row.local_path = path

\* download_history maps the hash of the item's bytes to an existing file
KnownContent(item) ==
    /\ calculate_md5(item.image_bytes) \in DOMAIN download_history
    /\ Exists(download_history[calculate_md5(item.image_bytes)])

\* C7 as stated: if download_history maps the hash of the fetched bytes to
\* an existing path P, md5_analyzer writes nothing and publishes a row
\* with path P, whatever P is
C7_AnyKnownPathSkips ==
    [][AnalyzerTakesItem =>
         LET item == Head(md5_analysis_queue)
         IN  KnownContent(item)
             => SkipsAndPublishes(item,
                    download_history[calculate_md5(item.image_bytes)])]_vars

\* C7 amended: if download_history maps the hash of the fetched bytes to
\* an existing path P and P is the canonical path of the task,
\* md5_analyzer writes nothing and publishes a row with path P
C7_CanonicalKnownPathSkips ==
    [][AnalyzerTakesItem =>
         LET item == Head(md5_analysis_queue)
             P == download_history[calculate_md5(item.image_bytes)]
         IN  ( /\ KnownContent(item)
               /\ P = <<item.base_folder_path,
                        calculate_md5(item.image_bytes), item.file_extension>> )
             => SkipsAndPublishes(item, P)]_vars

\* a task whose hash the loaded content-hash store mapped to its canonical
\* path was published without a write
C7_Witness ==
    /\ main_pc # "finished"
    /\ \E row \in Rows :
          /\ outcome[RowId(row)] = "skipped"
          /\ row.image_md5 \in DOMAIN history_files.md5
          /\ history_files.md5[row.image_md5] = row.local_path
          /\ \A id \in DOMAIN outcome : outcome[id] # "written"

\* a step in which an image_downloader takes a task off image_download_queue
DownloaderTakesTask ==
    /\ image_download_queue # <<>>
    /\ Head(image_download_queue) # StopMarker
    /\ image_download_queue' = Tail(image_download_queue)

\* C8: a task whose key is in url_download_history with a recorded path
\* that exists starts no fetch, puts nothing on md5_analysis_queue and
\* appends one row with the recorded path and the recorded hash
C8_CacheHitNoFetch ==
    [][DownloaderTakesTask =>
         LET task == Head(image_download_queue)
             key == task.image_url \o <<"|">> \o task.original_page_url
         IN  ( /\ key \in DOMAIN url_download_history
               /\ url_download_history[key].local_path \in DOMAIN disk )
             => /\ \A w \in Downloaders : downloader'[w].pc # "fetch"
                                           \/ downloader[w].pc = "fetch"
                /\ md5_analysis_queue' = md5_analysis_queue
                /\ Len(all_search_results_data') =
                      Len(all_search_results_data) + 1
                /\ LET row ==
                         all_search_results_data'[Len(all_search_results_data')]
                   IN  /\ RowId(row) = TaskId(task)
                       /\ row.local_path = url_download_history[key].local_path
                       /\ row.image_md5 = url_download_history[key].image_md5]_vars

C8_Witness ==
    \E row \in Rows :
        /\ outcome[RowId(row)] = "cache_hit"
        /\ KeyOf(RowId(row)) \in DOMAIN url_download_history
        /\ row.local_path = url_download_history[KeyOf(RowId(row))].local_path
        /\ md5_analysis_queue = <<>>

\* C9: the step in which the fetch of a task fails appends no row, leaves
\* both histories and md5_analysis_queue as they are and takes the worker
\* back to the dequeue; the step that took the task off the queue changed
\* neither download_history nor url_download_history
C9_FetchFailureDropsTask ==
    [][ /\ \A w \in Downloaders :
              ( /\ downloader[w].pc = "fetch"
                /\ outcome'[TaskId(downloader[w].task)] = "fetch_failed" )
              => /\ all_search_results_data' = all_search_results_data
                 /\ download_history' = download_history
                 /\ url_download_history' = url_download_history
                 /\ md5_analysis_queue' = md5_analysis_queue
                 /\ downloader'[w].pc = "get"
        /\ DownloaderTakesTask
              => /\ download_history' = download_history
                 /\ url_download_history' = url_download_history ]_vars

\* after a failed fetch another task is being fetched
C9_Witness ==
    \E id1 \in DOMAIN outcome, id2 \in DOMAIN outcome :
        /\ outcome[id1] = "fetch_failed"
        /\ outcome[id2] = "fetching"
        /\ all_search_results_data = <<>>
        /\ \E w \in Downloaders : downloader[w].pc = "get"

\* C10: the step in which the open or the write of a task's file fails
\* leaves both histories and the result list as they are and takes the
\* worker back to the dequeue
C10_WriteFailureDropsTask ==
    [][\A a \in Analyzers :
          ( /\ analyzer[a].pc \in {"open", "write"}
            /\ outcome'[TaskId(analyzer[a].task)] = "write_failed" )
          => /\ download_history' = download_history
             /\ url_download_history' = url_download_history
             /\ all_search_results_data' = all_search_results_data
             /\ analyzer'[a].pc = "get"]_vars

\* after a failed write the histories hold nothing of the task, and the
\* worker has taken a later item
C10_Witness ==
    \E id1 \in DOMAIN outcome, id2 \in DOMAIN outcome :
        /\ outcome[id1] = "write_failed"
        /\ KeyOf(id1) \notin DOMAIN url_download_history
        /\ RowsOf(id1) = {}
        /\ outcome[id2] \in {"opening", "writing", "written", "skipped"}
        /\ \A a \in Analyzers : analyzer[a].pc \in {"get", "open", "write"}

\* C11: no failure while processing one task ends a worker or the run: no
\* worker's task ends with an exception, and main does not end with the
\* exception of a worker
C11_NoTaskFailureEndsWorker ==
    /\ \A w \in Downloaders : downloader[w].pc \notin {"crashed", "cancelled"}
    /\ \A a \in Analyzers : analyzer[a].pc \notin {"crashed", "cancelled"}
    /\ (\E id \in DOMAIN outcome : outcome[id] = "makedirs_failed")
       => main_pc # "failed"

\* C12: within one performCivitaiImageScrape call, exactly one download
\* task per (thumbnail URL, detail-page URL) pair met is put on
\* image_download_queue, over all passes and re-appearances of a card
C12_OnePutPerPairAndCall ==
    /\ \A id \in DOMAIN run_log.puts : run_log.puts[id] = 1
    /\ \A t \in TargetUrls : \A key \in scraper[t].seen :
          \E id \in DOMAIN run_log.puts : id[1] = t /\ KeyOf(id) = key

\* a call met a card again, over two passes, and has put its task once
C12_Witness ==
    \E id \in DOMAIN run_log.puts :
        /\ scraper[id[1]].scroll_attempts = 2
        /\ <<id[1], KeyOf(id)>> \in aux.seen_again
        /\ run_log.puts[id] = 1

\* how often a task was put, was taken, and waits on image_download_queue
TimesPut(id) == IF id \in DOMAIN run_log.puts THEN run_log.puts[id] ELSE 0
TimesTaken(id) == IF id \in DOMAIN run_log.takes THEN run_log.takes[id] ELSE 0
Waiting(id) ==
    Cardinality({i \in DOMAIN image_download_queue :
                    /\ image_download_queue[i] # StopMarker
                    /\ TaskId(image_download_queue[i]) = id})

\* C13: every task put on image_download_queue is taken from it exactly
\* once (it waits or was taken once, and was taken once the downloaders
\* are joined), and no stop marker is ahead of a waiting task, so that no
\* downloader takes a marker while a task waits
C13_TakenOnceMarkersLast ==
    /\ \A id \in DOMAIN outcome :
          /\ TimesTaken(id) + Waiting(id) = TimesPut(id)
          /\ TimesTaken(id) <= 1
          /\ main_pc \notin {"start", "scrape", "join_downloaders"}
             => TimesTaken(id) = 1
    /\ \A i, j \in DOMAIN image_download_queue :
          i < j /\ image_download_queue[i] = StopMarker
          => image_download_queue[j] = StopMarker

\* the downloaders are joined after two tasks were taken
C13_Witness ==
    /\ main_pc = "join_analyzers"
    /\ \A w \in Downloaders : downloader[w].pc = "done"
    /\ Cardinality({id \in DOMAIN outcome : TimesTaken(id) = 1}) = 2

\* an analyzer has the file open and has not finished writing it
BeingWritten(path) ==
    \E a \in Analyzers :
        analyzer[a].pc = "write" /\ abs_local_filename(analyzer[a].task) = path

\* C14: every file at a canonical path directory/H.ext that no analyzer is
\* writing holds bytes whose hash is H
C14_CanonicalFileHoldsItsHash ==
    \A path \in DOMAIN disk :
        path[1] = ImageDir /\ ~BeingWritten(path)
        => disk[path] \in ImageBytes /\ calculate_md5(disk[path]) = path[2]

\* the stop markers main has put on a queue and those still on it
MarkersPut(n) == IF main_pc \in {"start", "scrape"} THEN 0 ELSE n
MarkersOn(queue) == Cardinality({i \in DOMAIN queue : queue[i] = StopMarker})
Exited(workers) ==
    Cardinality({w \in DOMAIN workers :
                    workers[w].pc \in {"done", "crashed", "cancelled"}})

\* C17: a worker has exited iff it took a stop marker, and it took one:
\* on each queue the workers that have exited are as many as the markers
\* taken from it
C17_ExitByOneMarker ==
    /\ Exited(downloader) + MarkersOn(image_download_queue)
          = MarkersPut(num_downloaders)
    /\ Exited(analyzer) + MarkersOn(md5_analysis_queue)
          = MarkersPut(num_md5_analyzers)

\* C18: when main has ended, by its last line, by the early return or by an
\* exception, each store has been written back exactly once
C18_SavedOnceAtEveryEnd ==
    main_pc \in {"finished", "returned", "failed"}
    => run_log.saves = [md5 |-> 1, url |-> 1]

\* C19: the persisted store files change only in the final flush of main;
\* no step of discovery, of a downloader or of an analyzer changes them
C19_FilesChangeOnlyInFlush ==
    [][history_files' # history_files
       => main_pc = "export" /\ main_pc' = "finished"]_vars

\* before the flush, the stores in memory are ahead of the files
C19_Witness ==
    /\ main_pc \in {"scrape", "join_downloaders", "join_analyzers", "export"}
    /\ \E id \in DOMAIN outcome : outcome[id] = "written"
    /\ history_files.md5 # download_history
    /\ history_files.url # save_url_history_rows(url_download_history)

\* C20: save_url_history followed by load_url_history into an empty store
\* gives back the store: the same keys, and per key the same path and hash
C20_RoundTrip ==
    aux.pc = "loaded" => aux.loaded = url_download_history

\* the locks a worker holds
HeldBy(id) == {l \in DOMAIN lock : lock[l] = id}

\* no worker holds a lock while it waits for a queue, a fetch or a file
NoLockAcrossIO ==
    /\ \A w \in Downloaders :
          downloader[w].pc \in {"get", "fetch"} => HeldBy(DownloaderId(w)) = {}
    /\ \A a \in Analyzers :
          analyzer[a].pc \in {"get", "open", "write"}
          => HeldBy(AnalyzerId(a)) = {}

\* a step that changes a shared structure is a step of the worker that
\* holds the lock of that structure
MutatesUnderLock ==
    /\ download_history' # download_history
       => \E a \in Analyzers : /\ lock.download_history = AnalyzerId(a)
                               /\ analyzer'[a] # analyzer[a]
    /\ url_download_history' # url_download_history
       => \E a \in Analyzers : /\ lock.url_download_history = AnalyzerId(a)
                               /\ analyzer'[a] # analyzer[a]
    /\ all_search_results_data' # all_search_results_data
       => \/ \E a \in Analyzers :
                /\ lock.all_search_results_data = AnalyzerId(a)
                /\ analyzer'[a] # analyzer[a]
          \/ \E w \in Downloaders :
                /\ lock.all_search_results_data = DownloaderId(w)
                /\ downloader'[w] # downloader[w]

\* C15: every mutation of download_history, url_download_history or
\* all_search_results_data by a worker happens while that worker holds the
\* lock of the structure, and no worker holds a lock while it is suspended
\* in a fetch or in a file write
C15_LockedMutationsNoLockAcrossIO ==
    []NoLockAcrossIO /\ [][MutatesUnderLock]_vars

\* an analyzer is about to update download_history under its lock while a
\* downloader is suspended in a fetch
C15_Witness ==
    \E a \in Analyzers, w \in Downloaders :
        /\ analyzer[a].pc = "dh_update"
        /\ lock.download_history = AnalyzerId(a)
        /\ downloader[w].pc = "fetch"
        /\ HeldBy(DownloaderId(w)) = {}

\* an analyzer has updated download_history for its item and has not yet
\* published the row
MidUpdate == {"udh_lock", "udh_update", "row_lock", "append"}

\* while an analyzer is between the two updates and the row, every step is
\* its own
OnlyTheUpdaterSteps ==
    \A a \in Analyzers :
        analyzer[a].pc \in MidUpdate
        => /\ downloader' = downloader
           /\ \A b \in Analyzers \ {a} : analyzer'[b] = analyzer[b]

\* a row an analyzer appends is in both stores already
RowAfterBothUpdates ==
    \A a \in Analyzers :
        analyzer[a].pc = "append"
        /\ all_search_results_data' # all_search_results_data
        => LET item == analyzer[a].task
               md5 == calculate_md5(item.image_bytes)
               key == UrlKey(item.image_url, item.original_page_url)
           IN  /\ md5 \in DOMAIN download_history
               /\ download_history[md5] = abs_local_filename(item)
               /\ key \in DOMAIN url_download_history
               /\ url_download_history[key] =
                     [local_path |-> abs_local_filename(item), image_md5 |-> md5]

\* C16: after a write or a skip, the updates of download_history and of
\* url_download_history for an item are atomic for the other workers (none
\* of them takes a step between the two), and the row is published only
\* after both
C16_UpdatesAtomicThenRow ==
    [][OnlyTheUpdaterSteps /\ RowAfterBothUpdates]_vars

\* download_history holds the hash of an item whose key is not yet in
\* url_download_history, while another worker holds a task
C16_Witness ==
    \E a \in Analyzers :
        /\ analyzer[a].pc = "udh_lock"
        /\ calculate_md5(analyzer[a].task.image_bytes) \in DOMAIN download_history
        /\ UrlKey(analyzer[a].task.image_url, analyzer[a].task.original_page_url)
              \notin DOMAIN url_download_history
        /\ \/ \E w \in Downloaders : downloader[w].pc = "fetch"
           \/ \E b \in Analyzers \ {a} : analyzer[b].pc \in {"open", "write"}

\* C21: loading an absent, empty or corrupt store file does not raise and
\* leaves the store empty, the rows read before the error discarded, and
\* main goes on
C21_FailedLoadLeavesEmptyStore ==
    /\ aux.pc # "load_md5" /\ aux.md5_file.kind # "json"
       => download_history = Empty
    /\ aux.pc = "loaded" /\ (aux.url_file.kind # "rows" \/ aux.raised)
       => url_download_history = Empty
    /\ main_pc = "start" => aux.pc = "loaded"

\* main has gone on after a content-hash file that is not JSON and a
\* reference-hash file whose second row raised after a first row was read
C21_Witness ==
    /\ main_pc = "start"
    /\ aux.md5_file.kind = "corrupt"
    /\ aux.url_file.kind = "rows"
    /\ aux.raised
    /\ aux.row_idx = 1
    /\ aux.url_file.rows[1] =
          [thumb_url |-> Thumb1, orig_page_url |-> Detail1,
           local_path |-> Canon1, image_md5 |-> "H1"]

\* the rows that have both URLs and a local path
WellFormed(row) ==
    Len(row.thumb_url) > 0 /\ Len(row.orig_page_url) > 0
    /\ Len(row.local_path) > 0

Dropped == {"not_http", "fetch_failed", "write_failed", "makedirs_failed"}

\* C23: every row of all_search_results_data has a local path and a local
\* hyperlink, and none belongs to a task that was dropped
C23_NoPlaceholderRow ==
    \A row \in Rows :
        /\ row.local_path # NoPath
        /\ row.local_hyperlink # NoPath
        /\ outcome[RowId(row)] \notin Dropped

\* a task was dropped after its fetch failed, another one has its row
C23_Witness ==
    /\ \E id \in DOMAIN outcome : outcome[id] = "fetch_failed"
    /\ \E row \in Rows : outcome[RowId(row)] \in Persisted \cup {"cache_hit"}

\* C24: no step removes a hash from download_history
C24_ContentHashStoreOnlyGrows ==
    [][DOMAIN download_history \subseteq DOMAIN download_history']_vars

\* a task whose hash was recorded with an outdated path was written: the
\* hash is still in download_history, now with the canonical path
C24_Witness ==
    /\ main_pc # "finished"
    /\ "H1" \in DOMAIN history_files.md5
    /\ history_files.md5["H1"] = OldPath
    /\ "H1" \in DOMAIN download_history
    /\ download_history["H1"] # OldPath
    /\ \E id \in DOMAIN outcome : outcome[id] = "written"

\* C25: md5_analyzer skips the write of an item exactly when
\* download_history maps the item's hash to an existing path that is the
\* item's canonical path, and starts a write in every other case
C25_SkipsExactlyWhenKnownCanonical ==
    [][AnalyzerTakesItem =>
         LET item == Head(md5_analysis_queue)
         IN  (disk' = disk /\ analyzer' = analyzer)
             <=> ( /\ KnownContent(item)
                   /\ download_history[calculate_md5(item.image_bytes)]
                         = abs_local_filename(item) )]_vars

\* C26: no two md5_analyzer workers have a write in progress at one
\* canonical path (a file is written only if absent, so a path is written
\* at most once)
C26_OneWritePerPath ==
    \A a, b \in Analyzers :
        /\ a # b
        /\ analyzer[a].pc = "write"
        /\ analyzer[b].pc = "write"
        => abs_local_filename(analyzer[a].task)
              # abs_local_filename(analyzer[b].task)

\* the steps of a download task in image_downloader
DownloaderSteps ==
    {<<"queued", "cache_hit">>, <<"queued", "fetching">>,
     <<"fetching", "forwarded">>, <<"fetching", "fetch_failed">>}

\* the stages of an item in md5_analyzer
AnalyzerStages ==
    {"opening", "writing", "written", "skipped", "write_failed",
     "makedirs_failed"}

TimesFetched(id) ==
    IF id \in DOMAIN run_log.fetches THEN run_log.fetches[id] ELSE 0

\* C27: a download task goes from queued to a cache hit or to a fetch, and
\* from the fetch to forwarded or to failed; a cache hit and a failed fetch
\* are final, a forwarded task only goes on in md5_analyzer; a task is
\* fetched at most once
C27_TaskStateMachine ==
    [][/\ \A id \in DOMAIN outcome' \ DOMAIN outcome : outcome'[id] = "queued"
       /\ \A id \in DOMAIN outcome :
             /\ id \in DOMAIN outcome'
             /\ outcome'[id] # outcome[id]
                => \/ <<outcome[id], outcome'[id]>> \in DownloaderSteps
                   \/ /\ outcome[id] \in {"forwarded"} \cup AnalyzerStages
                      /\ outcome'[id] \in AnalyzerStages
             /\ outcome[id] = "queued" => TimesFetched(id) = 0
       /\ \A id \in DOMAIN outcome' :
             /\ TimesFetched(id)' <= 1
             /\ main_pc' \notin {"start", "scrape", "join_downloaders"}
                => outcome'[id] \notin {"queued", "fetching"}]_vars

\* the downloaders are joined; one task ended as a failed fetch after one
\* attempt, another one as a cache hit or forwarded
C27_Witness ==
    /\ main_pc = "join_analyzers"
    /\ \E id \in DOMAIN outcome :
          outcome[id] = "fetch_failed" /\ TimesFetched(id) = 1
    /\ \E id \in DOMAIN outcome :
          outcome[id] \in {"cache_hit"} \cup AnalyzerStages \cup {"forwarded"}

\* a thumbnail URL that is absent, empty or does not begin with "http"
NotAddressable(src) ==
    \/ src = <<>>
    \/ Len(src) < 4
    \/ <<src[1], src[2], src[3], src[4]>> # <<"h", "t", "t", "p">>

ParsedCard == aux.pc = "done" /\ aux.input.fn = "card"

\* C28: a card whose thumbnail URL is absent, empty or does not start with
\* "http" produces no download task and is not added to the seen-set, whatever
\* the seen-set of the pass holds; _parse_card_container returns False for it
C28_UnaddressableCardDiscarded ==
    ParsedCard /\ NotAddressable(aux.input.card.src)
    => /\ aux.result.added = FALSE
       /\ aux.result.queue = <<>>
       /\ aux.result.seen = aux.input.seen

C28_Witness ==
    /\ ParsedCard
    /\ aux.input.card.src = ThumbBad
    /\ aux.input.card.href = Detail1
    /\ aux.input.seen # {}
    /\ aux.result.added = FALSE

\* where the query string of a URL begins: its first '?', or its end
QueryStart(url) ==
    IF \E i \in 1..Len(url) : url[i] = "?"
    THEN CHOOSE i \in 1..Len(url) :
            url[i] = "?" /\ \A j \in 1..(i - 1) : url[j] # "?"
    ELSE Len(url) + 1

\* the text after the last '.' that precedes the query string, lower-cased;
\* empty when there is no '.'
Suffix(url) ==
    LET dots == {i \in 1..(QueryStart(url) - 1) : url[i] = "."}
    IN  IF dots = {}
        THEN <<>>
        ELSE LET last == CHOOSE i \in dots : \A j \in dots : j <= i
             IN  [k \in 1..(QueryStart(url) - 1 - last) |-> ToLower(url[last + k])]

Plausible(text) ==
    /\ Len(text) \in 1..5
    /\ \A i \in 1..Len(text) : text[i] \in LowerCase \cup UpperCase

\* a URL a fetch can succeed on: a scheme, then ':'
Fetchable(url) == Len(url) > 4 /\ url[5] = ":"

DerivedExtension == aux.pc = "done" /\ aux.input.fn = "extension"

\* C29: for every source URL that can be fetched, the extension is the
\* lower-cased text after the last '.' of the URL without its query string
\* when that text is non-empty, alphabetic and at most 5 characters long, and
\* 'jpg' otherwise; for every URL it is non-empty, alphabetic and at most 5
\* characters long
C29_ExtensionRule ==
    DerivedExtension
    => /\ Fetchable(aux.input.image_url)
          => aux.result = IF Plausible(Suffix(aux.input.image_url))
                          THEN Suffix(aux.input.image_url)
                          ELSE <<"j", "p", "g">>
       /\ Plausible(aux.result)

C29_Witness ==
    /\ DerivedExtension
    /\ aux.input.image_url
          = <<"h", "t", "t", "p", ":", "/", "/", "a", ".", "b",
              ".", "P", "N", "G", "?", "n", ".", "p", "n", "g">>
    /\ aux.result = <<"p", "n", "g">>

ParsedCards == aux.pc = "done" /\ aux.input.fn = "cards"

\* C30: two references are treated as the same by the seen-set exactly when
\* their thumbnail URLs and their detail-page URLs are both equal, URLs that
\* hold '|' included: of two cards of one pass the second is queued exactly
\* when it differs from the first
C30_SameReferenceIffSamePair ==
    ParsedCards
    => (Len(aux.result.queue) = 2 <=> aux.input.first # aux.input.second)

\* the keys under which md5_analyzer has stored a record in this run
InsertedKeys == {KeyOf(id) : id \in {i \in DOMAIN outcome : outcome[i] \in Persisted}}

\* C31: whenever no md5_analyzer is between its two store updates, every
\* record of url_download_history inserted in this run, with path p and
\* hash h, has download_history[h] = p
C31_StoresAgree ==
    \A key \in InsertedKeys :
        /\ key \in DOMAIN url_download_history
        /\ url_download_history[key].image_md5 \in DOMAIN download_history
        /\ download_history[url_download_history[key].image_md5]
              = url_download_history[key].local_path

\* C32: over a whole run with several target URLs, at most one download
\* task per (thumbnail URL, detail-page URL) pair is put on
\* image_download_queue, and no pair is fetched twice or has two result rows
C32_OneTaskPerPairAndRun ==
    /\ \A id \in DOMAIN run_log.puts :
          /\ run_log.puts[id] = 1
          /\ \A other \in DOMAIN run_log.puts :
                KeyOf(other) = KeyOf(id) => other = id
    /\ \A id, other \in DOMAIN run_log.fetches :
          KeyOf(other) = KeyOf(id) => other = id
    /\ \A i, j \in DOMAIN all_search_results_data :
          KeyOf(RowId(all_search_results_data[i]))
             = KeyOf(RowId(all_search_results_data[j])) => i = j

\* an item put on md5_analysis_queue carries the URLs and the template of
\* the task a downloader was fetching, and that downloader lets go of it
ForwardedByItsFetcher ==
    Len(md5_analysis_queue') > Len(md5_analysis_queue)
    /\ md5_analysis_queue'[Len(md5_analysis_queue')] # StopMarker
    => LET item == md5_analysis_queue'[Len(md5_analysis_queue')]
       IN  /\ SubSeq(md5_analysis_queue', 1, Len(md5_analysis_queue))
                 = md5_analysis_queue
           /\ \E w \in Downloaders :
                 /\ downloader[w].pc = "fetch"
                 /\ downloader'[w].task = NoTask
                 /\ item.image_url = downloader[w].task.image_url
                 /\ item.original_page_url = downloader[w].task.original_page_url
                 /\ item.template = downloader[w].task.template

\* an analyzer takes the head of the queue and keeps the item as it is
\* until it is back at queue.get()
KeptAsTaken ==
    \A a \in Analyzers :
        /\ analyzer[a].pc = "get" /\ analyzer'[a].pc \notin {"get", "done"}
           => analyzer'[a].task = Head(md5_analysis_queue)
        /\ analyzer[a].pc # "get" /\ analyzer'[a].pc \notin {"get", "done"}
           => analyzer'[a].task = analyzer[a].task

\* the row an analyzer appends has the URLs of its item, the hash of the
\* item's bytes and the path directory/hash.ext for the extension of the
\* item's URL, and url_download_history holds that path and hash under the
\* item's key
PublishedFromItsItem ==
    \A a \in Analyzers :
        analyzer[a].pc = "append"
        /\ all_search_results_data' # all_search_results_data
        => LET item == analyzer[a].task
               row == all_search_results_data'[Len(all_search_results_data')]
               md5 == calculate_md5(item.image_bytes)
               path == <<ImageDir, md5, FileExtension(item.image_url)>>
           IN  /\ row.thumbnail_url = item.image_url
               /\ row.original_page_url = item.original_page_url
               /\ row.search_url = item.template.search_url
               /\ row.image_md5 = md5
               /\ row.local_path = path
               /\ UrlKey(row.thumbnail_url, row.original_page_url)
                     \in DOMAIN url_download_history
               /\ url_download_history[UrlKey(row.thumbnail_url,
                                              row.original_page_url)]
                     = [local_path |-> path, image_md5 |-> md5]

\* C33: under any interleaving of the workers, a row published by
\* md5_analyzer has the URLs of the task whose fetch produced the bytes, the
\* hash of those bytes, the path directory/hash.ext for that task's
\* extension, and url_download_history maps the task's key to that path and
\* hash
C33_RowOfOneTask ==
    [][ForwardedByItsFetcher /\ KeptAsTaken /\ PublishedFromItsItem]_vars

\* a row of the first reference is published while the other analyzer holds
\* an item of the second reference with other bytes
C33_Witness ==
    \E a, b \in Analyzers :
        /\ Len(all_search_results_data) > 0
        /\ all_search_results_data[Len(all_search_results_data)].thumbnail_url
              = Thumb1
        /\ all_search_results_data[Len(all_search_results_data)].image_md5
              = calculate_md5("B1")
        /\ analyzer[a].pc = "get"
        /\ analyzer[b].pc \in {"open", "write"}
        /\ analyzer[b].task.image_url = Thumb2
        /\ analyzer[b].task.image_bytes = "B2"

Workers ==
    {DownloaderId(w) : w \in Downloaders} \cup {AnalyzerId(a) : a \in Analyzers}

\* the workers that wait for a lock another worker holds
WaitingForLock ==
    {DownloaderId(w) : w \in {v \in Downloaders :
        /\ downloader[v].pc \in DOMAIN LockOf
        /\ lock[LockOf[downloader[v].pc]] # NoHolder}}
    \cup {AnalyzerId(a) : a \in {b \in Analyzers :
        /\ analyzer[b].pc \in DOMAIN LockOf
        /\ lock[LockOf[analyzer[b].pc]] # NoHolder}}

\* C34: no worker holds two of the three locks at once, a worker at a queue
\* operation holds none, and no lock is held by a worker that itself waits
\* for a lock, so that no workers wait on locks for each other
C34_OneLockAtATime ==
    /\ \A id \in Workers : Cardinality(HeldBy(id)) <= 1
    /\ \A w \in Downloaders :
          downloader[w].pc \in {"get", "fetch", "done"}
          => \A l \in DOMAIN lock : lock[l] # DownloaderId(w)
    /\ \A a \in Analyzers :
          analyzer[a].pc \in {"get", "done"}
          => \A l \in DOMAIN lock : lock[l] # AnalyzerId(a)
    /\ \A l \in DOMAIN lock : lock[l] \notin WaitingForLock

\* an analyzer has released download_history_lock and holds
\* url_download_history_lock alone, while a downloader is at queue.get()
C34_Witness ==
    \E a \in Analyzers, w \in Downloaders :
        /\ analyzer[a].pc = "udh_update"
        /\ HeldBy(AnalyzerId(a)) = {"url_download_history"}
        /\ downloader[w].pc = "get"
        /\ HeldBy(DownloaderId(w)) = {}

WorkersJoined ==
    /\ \A w \in Downloaders : downloader[w].pc = "done"
    /\ \A a \in Analyzers : analyzer[a].pc = "done"

\* C35: in a run with a target URL the stores are flushed only after every
\* worker is joined and the export is saved, the content-hash store first and
\* the reference-hash store second; a run that fails before or during the
\* export flushes neither store
C35_FlushAfterExportInOrder ==
    /\ aux.flushed \in {<<>>, <<"md5">>, <<"md5", "url">>}
    /\ aux.flushed # <<>> \/ history_files # aux.files
       => /\ WorkersJoined
          /\ aux.exported
          /\ main_pc \in {"save_url_history", "finished"}
    /\ history_files.url # aux.files.url => aux.flushed = <<"md5", "url">>
    /\ main_pc = "failed" => aux.flushed = <<>> /\ history_files = aux.files
    /\ main_pc = "finished" => aux.flushed = <<"md5", "url">>

\* both stores were flushed, and the files have changed
C35_Witness ==
    /\ main_pc = "finished"
    /\ aux.flushed = <<"md5", "url">>
    /\ history_files.md5 # aux.files.md5
    /\ history_files.url # aux.files.url
    /\ history_files.md5 = download_history

\* C36: in main.py, over any calls of process_image_data, calls of
\* concurrent tasks included, at most one file is written per content hash
\* and all calls with the same bytes return the same path
C36_OneFilePerHash ==
    /\ \A h \in DOMAIN aux.written : aux.written[h] <= 1
    /\ \A r, s \in aux.returned : r[1] = s[1] => r[2] = s[2]

\* a call goes on to the fetch only when download_history has no entry for
\* the hash of the URL or the recorded file is missing, and a found entry
\* is deleted before the fetch
FetchOnlyIfUnknownOrMissing ==
    aux.call.pc = "idle" /\ aux'.call.pc = "fetch"
    => LET h == <<"sha256", aux'.call.image_url>>
       IN  /\ h \notin DOMAIN download_history
              \/ download_history[h] \notin DOMAIN disk
           /\ h \notin DOMAIN download_history'
           /\ aux'.call.redownload <=> h \in DOMAIN download_history

\* a call that ends without a path leaves no entry for its URL
FailedLeavesNoEntry ==
    aux.call.pc \in {"fetch", "open", "write"}
    /\ aux'.call.pc = "idle" /\ aux'.result = <<NoValue, NoValue>>
    => <<"sha256", aux.call.image_url>> \notin DOMAIN download_history'

\* a call that ends with a path has recorded it for the hash of its URL, and
\* the file at that path holds the bytes the call has just written
SuccessRecordsWrittenFile ==
    aux.call.pc \in {"fetch", "open", "write"}
    /\ aux'.call.pc = "idle" /\ aux'.result # <<NoValue, NoValue>>
    => /\ aux.call.pc = "write"
       /\ aux'.result[2] = <<"sha256", aux.call.image_url>>
       /\ aux'.result[2] \in DOMAIN download_history'
       /\ download_history'[aux'.result[2]] = aux'.result[1]
       /\ aux'.result[1] \in DOMAIN disk'
       /\ disk'[aux'.result[1]] = aux.call.image_bytes

ThreeWithoutNew(passes) == passes = <<"none_new", "none_new", "none_new">>

\* C38: in main.py the scroll loop makes at most 30 passes, and it stops
\* before the 30th pass is over exactly when three consecutive passes found
\* cards but none with a new detail-page URL (a pass with a new card or with
\* no card at all starts the count again) or when a pass raised
C38_ScrollLoopStops ==
    /\ [](aux.scroll_attempts <= 30)
    /\ [](aux.pc = "closed"
          => \/ aux.raised
             \/ ThreeWithoutNew(aux.passes)
             \/ aux.scroll_attempts = 30)
    /\ [][/\ aux'.scroll_attempts > aux.scroll_attempts => aux.pc = "while"
          /\ aux.pc = "while" /\ aux.scroll_attempts < 30
             => (aux'.pc = "closed"
                 <=> aux'.raised \/ ThreeWithoutNew(aux'.passes))
          /\ aux.pc = "while" /\ aux.scroll_attempts = 30
             => aux'.pc = "closed"]_vars

\* the loop has stopped after six passes: the count began again before the
\* last three, which found cards and none of them new
C38_Witness ==
    /\ aux.pc = "closed"
    /\ ~aux.raised
    /\ aux.scroll_attempts = 6
    /\ aux.processed_image_detail_urls = {Detail1}
    /\ ThreeWithoutNew(aux.passes)

====
